---- MODULE Spec2Model ----
(***************************************************************************)
(* Model of the expression / sequence / property grammar engine            *)
(* (Parser_expressions.cpp).  The recursive descent is run on an explicit  *)
(* call stack: every grammar rule is an operator over its frame (its       *)
(* locals v and its position pc), the value r its last callee returned and *)
(* the parser state s; it answers with the next call it makes or with its  *)
(* return value.  One step of the machine runs the rule on top of the      *)
(* stack up to its next call or return.                                    *)
(***************************************************************************)
EXTENDS Integers, Sequences, FiniteSets, TLC

VARIABLES tokens, phase, entry, opts, minPrec, result, previous, previousCur, cur, stack, ret,
          val, made

parserVars ==
  <<tokens, phase, entry, opts, minPrec, result, previous, previousCur, cur, stack, ret>>

vars == <<parserVars, val, made>>

\* ---------------------------------------------------------------- bounds
MaxLen == 2
MaxOps == 2
MaxGroup == 2
MaxRecursionDepth == 5

\* ---------------------------------------------------------------- tokens
Token(kind, at) == [kind |-> kind, at |-> at, missing |-> FALSE]

createMissing(kind, at) == [kind |-> kind, at |-> at, missing |-> TRUE]

EmptyToken == [kind |-> "Unknown", at |-> 0, missing |-> FALSE]

\* ---------------------------------------------------------------- nodes
Node(kind, toks, kids) == [kind |-> kind, toks |-> toks, kids |-> kids]

NullNode == Node("Null", <<>>, <<>>)

ErrorNode(at) == Node("ErrorNode", <<createMissing("Unknown", at)>>, <<>>)

R(n, s) == [n |-> n, s |-> s]

\* a list of nodes carried as the children of one node
ListNode(items) == Node("List", <<>>, items)

TokenNode(t) == Node("Token", <<t>>, <<>>)

\* ---------------------------------------------------------------- parser state
InitState ==
  [pos |-> 1, diags |-> <<>>, depth |-> 0, stuck |-> FALSE, reent |-> {}, skipped |-> {}]

\* the state an earlier parse ended in, when there was none
NoEarlierParse == [InitState EXCEPT !.pos = 0]

peekKindAt(s, offset) ==
  IF s.pos + offset <= Len(tokens) THEN tokens[s.pos + offset] ELSE "EndOfFile"

peekKind(s) == peekKindAt(s, 0)

peekIs(s, kind) == peekKind(s) = kind

location(s) == IF s.pos <= Len(tokens) THEN s.pos ELSE Len(tokens) + 1

consume(s) ==
  IF s.pos <= Len(tokens)
    THEN [t |-> Token(tokens[s.pos], s.pos), s |-> [s EXCEPT !.pos = @ + 1]]
    ELSE [t |-> Token("EndOfFile", Len(tokens) + 1), s |-> s]

addDiag(s, code, at) == [s EXCEPT !.diags = Append(@, [code |-> code, at |-> at])]

haveDiagAtCurrentLoc(s) == \E i \in 1..Len(s.diags) : s.diags[i].at = location(s)

expect(s, kind) ==
  IF peekKind(s) = kind
    THEN consume(s)
    ELSE [t |-> createMissing(kind, location(s)),
          s |-> addDiag(s, "ExpectedToken", location(s))]

consumeIf(s, kind) ==
  IF peekKind(s) = kind THEN consume(s) ELSE [t |-> EmptyToken, s |-> s]

skipToken(s) ==
  IF s.pos <= Len(tokens)
    THEN [s EXCEPT !.pos = @ + 1, !.skipped = @ \cup {s.pos}]
    ELSE s

\* ---------------------------------------------------------------- depth guard
depthExceeded(s) == s.depth >= MaxRecursionDepth

tooDeep(s) == addDiag(s, "ParseTreeTooDeep", location(s))

setDepthGuard(s) == [s EXCEPT !.depth = @ + 1]

releaseDepthGuard(s) == [s EXCEPT !.depth = @ - 1]

\* a loop iteration that did not move the cursor is recorded and ends the loop
MarkStuck(s) == [s EXCEPT !.stuck = TRUE]

\* ---------------------------------------------------------------- SyntaxFacts
getUnaryPrefixExpression(kind) ==
  CASE kind = "Plus" -> "UnaryPlusExpression"
    [] kind = "Minus" -> "UnaryMinusExpression"
    [] kind = "Exclamation" -> "UnaryLogicalNotExpression"
    [] kind = "DoublePlus" -> "UnaryPreincrementExpression"
    [] kind = "DoubleMinus" -> "UnaryPredecrementExpression"
    [] OTHER -> "Unknown"

getUnaryPostfixExpression(kind) ==
  CASE kind = "DoublePlus" -> "PostincrementExpression"
    [] kind = "DoubleMinus" -> "PostdecrementExpression"
    [] OTHER -> "Unknown"

getLiteralExpression(kind) ==
  CASE kind = "StringLiteral" -> "StringLiteralExpression"
    [] kind = "UnbasedUnsizedLiteral" -> "UnbasedUnsizedLiteralExpression"
    [] kind = "NullKeyword" -> "NullLiteralExpression"
    [] kind = "OneStep" -> "OneStepLiteralExpression"
    [] kind = "Dollar" -> "WildcardLiteralExpression"
    [] OTHER -> "Unknown"

getBinaryExpression(kind) ==
  CASE kind = "Plus" -> "AddExpression"
    [] kind = "Minus" -> "SubtractExpression"
    [] kind = "Star" -> "MultiplyExpression"
    [] kind = "DoubleStar" -> "PowerExpression"
    [] kind = "DoubleEquals" -> "EqualityExpression"
    [] kind = "LessThanEquals" -> "LessThanEqualExpression"
    [] kind = "LessThan" -> "LessThanExpression"
    [] kind = "InsideKeyword" -> "InsideExpression"
    [] kind = "DoubleAnd" -> "LogicalAndExpression"
    [] kind = "DoubleOr" -> "LogicalOrExpression"
    [] kind = "MinusArrow" -> "LogicalImplicationExpression"
    [] kind = "LessThanMinusArrow" -> "LogicalEquivalenceExpression"
    [] kind = "Equals" -> "AssignmentExpression"
    [] kind = "PlusEqual" -> "AddAssignmentExpression"
    [] OTHER -> "Unknown"

getBinarySequenceExpr(kind) ==
  CASE kind = "AndKeyword" -> "AndSequenceExpr"
    [] kind = "OrKeyword" -> "OrSequenceExpr"
    [] kind = "IntersectKeyword" -> "IntersectSequenceExpr"
    [] kind = "ThroughoutKeyword" -> "ThroughoutSequenceExpr"
    [] kind = "WithinKeyword" -> "WithinSequenceExpr"
    [] OTHER -> "Unknown"

getBinaryPropertyExpr(kind) ==
  CASE kind = "AndKeyword" -> "AndPropertyExpr"
    [] kind = "OrKeyword" -> "OrPropertyExpr"
    [] kind = "IffKeyword" -> "IffPropertyExpr"
    [] kind = "UntilKeyword" -> "UntilPropertyExpr"
    [] kind = "SUntilKeyword" -> "SUntilPropertyExpr"
    [] kind = "ImpliesKeyword" -> "ImpliesPropertyExpr"
    [] kind = "OrMinusArrow" -> "ImplicationPropertyExpr"
    [] kind = "OrEqualsArrow" -> "NonOverlappedImplicationPropertyExpr"
    [] kind = "HashMinusHash" -> "FollowedByPropertyExpr"
    [] OTHER -> "Unknown"

getPrecedence(kind) ==
  CASE kind \in {"AssignmentExpression", "AddAssignmentExpression",
                 "NonblockingAssignmentExpression"} -> 1
    [] kind \in {"LogicalImplicationExpression", "LogicalEquivalenceExpression"} -> 2
    [] kind = "LogicalOrExpression" -> 3
    [] kind = "LogicalAndExpression" -> 4
    [] kind = "EqualityExpression" -> 8
    [] kind \in {"LessThanEqualExpression", "LessThanExpression", "InsideExpression"} -> 9
    [] kind \in {"AddExpression", "SubtractExpression"} -> 11
    [] kind = "MultiplyExpression" -> 12
    [] kind = "PowerExpression" -> 13
    [] kind \in {"ImplicationPropertyExpr", "NonOverlappedImplicationPropertyExpr",
                 "FollowedByPropertyExpr"} -> 1
    [] kind \in {"UntilPropertyExpr", "SUntilPropertyExpr", "ImpliesPropertyExpr"} -> 2
    [] kind = "IffPropertyExpr" -> 3
    [] kind \in {"OrSequenceExpr", "OrPropertyExpr"} -> 4
    [] kind \in {"AndSequenceExpr", "AndPropertyExpr"} -> 5
    [] kind = "IntersectSequenceExpr" -> 6
    [] kind = "WithinSequenceExpr" -> 7
    [] kind = "ThroughoutSequenceExpr" -> 8
    [] OTHER -> 0

isRightAssociative(kind) ==
  kind \in {"AssignmentExpression", "AddAssignmentExpression",
            "NonblockingAssignmentExpression", "LogicalImplicationExpression",
            "LogicalEquivalenceExpression", "ThroughoutSequenceExpr",
            "IffPropertyExpr", "UntilPropertyExpr", "SUntilPropertyExpr",
            "ImpliesPropertyExpr", "ImplicationPropertyExpr",
            "NonOverlappedImplicationPropertyExpr", "FollowedByPropertyExpr"}

getKeywordNameExpression(kind) ==
  CASE kind = "UnitSystemName" -> "UnitScope"
    [] kind = "RootSystemName" -> "RootScope"
    [] kind = "LocalKeyword" -> "LocalScope"
    [] kind = "ThisKeyword" -> "ThisHandle"
    [] kind = "SuperKeyword" -> "SuperHandle"
    [] kind = "NewKeyword" -> "ConstructorName"
    [] kind = "UniqueKeyword" -> "ArrayUniqueMethod"
    [] kind = "AndKeyword" -> "ArrayAndMethod"
    [] kind = "OrKeyword" -> "ArrayOrMethod"
    [] kind = "XorKeyword" -> "ArrayXorMethod"
    [] OTHER -> "Unknown"

isSpecialMethodName(kind) ==
  kind \in {"ArrayUniqueMethod", "ArrayAndMethod", "ArrayOrMethod", "ArrayXorMethod"}

isPossibleDelayOrEventControl(kind) ==
  kind \in {"Hash", "DoubleHash", "At", "RepeatKeyword"}

isPossibleDataType(kind) == kind \in {"IntKeyword", "Identifier", "UnitSystemName"}

isPossibleExpression(kind) ==
  \/ kind \in {"TaggedKeyword", "StringLiteral", "IntegerLiteral", "IntegerBase",
               "UnbasedUnsizedLiteral", "RealLiteral", "TimeLiteral", "NullKeyword",
               "OneStep", "Dollar", "SystemIdentifier", "LocalKeyword", "ThisKeyword",
               "SuperKeyword", "NewKeyword", "RootSystemName", "UnitSystemName",
               "Identifier", "OpenParenthesis", "OpenBrace", "ApostropheOpenBrace",
               "SignedKeyword", "UnsignedKeyword", "ConstKeyword"}
  \/ isPossibleDataType(kind)
  \/ getUnaryPrefixExpression(kind) # "Unknown"

isNotInType(kind) == kind \in {"Semicolon", "EndOfFile", "EndCaseKeyword"}

isSemicolon(kind) == kind = "Semicolon"

\* the IsExpected / IsEnd predicates handed to parseList, selected by name
IsExpected(pred, kind) ==
  CASE pred = "isPossibleExpressionOrComma" -> kind = "Comma" \/ isPossibleExpression(kind)
    [] pred = "isPossibleExpressionOrCommaOrDefault" ->
         kind \in {"Comma", "DefaultKeyword"} \/ isPossibleExpression(kind)
    [] pred = "isPossibleExpressionOrTripleAnd" ->
         kind = "TripleAnd" \/ isPossibleExpression(kind)
    [] pred = "isPossibleArgument" -> kind \in {"Dot", "Comma"} \/ isPossibleExpression(kind)
    [] pred = "isPossibleOpenRangeElement" ->
         kind \in {"OpenBracket", "Comma"} \/ isPossibleExpression(kind)
    [] OTHER -> FALSE

IsEnd(pred, kind) ==
  CASE pred = "isEndOfParenList" -> kind \in {"CloseParenthesis", "Semicolon", "EndOfFile"}
    [] pred = "isEndOfBracedList" -> kind \in {"CloseBrace", "Semicolon", "EndOfFile"}
    [] pred = "isEndOfCaseItem" -> kind \in {"Colon", "Semicolon", "EndOfFile"}
    [] pred = "isEndOfConditionalPredicate" ->
         kind \in {"Question", "CloseParenthesis", "BeginKeyword", "Semicolon", "EndOfFile"}
    [] OTHER -> TRUE

\* ---------------------------------------------------------------- tree factory
NoAttributes == ListNode(<<>>)

literalExpression(kind, tok) == Node(kind, <<tok>>, <<>>)

identifierName(identifier) == Node("IdentifierName", <<identifier>>, <<>>)

keywordName(kind, keyword) == Node(kind, <<keyword>>, <<>>)

scopedName(left, separator, right) == Node("ScopedName", <<separator>>, <<left, right>>)

parenthesizedExpression(openParen, expr, closeParen) ==
  Node("ParenthesizedExpression", <<openParen, closeParen>>, <<expr>>)

prefixUnaryExpression(kind, opToken, attributes, operand) ==
  Node(kind, <<opToken>>, <<attributes, operand>>)

binaryExpression(kind, left, opToken, attributes, right) ==
  Node(kind, <<opToken>>, <<left, attributes, right>>)

conditionalPattern(expr, matchesClause) ==
  Node("ConditionalPattern", <<>>, <<expr, matchesClause>>)

conditionalPredicate(conditions) == Node("ConditionalPredicate", <<>>, conditions)

conditionalExpression(predicate, question, attributes, lhs, colon, rhs) ==
  Node("ConditionalExpression", <<question, colon>>, <<predicate, attributes, lhs, rhs>>)

argumentList(openParen, list, closeParen) ==
  Node("ArgumentList", <<openParen, closeParen>>, list)

invocationExpression(left, attributes, arguments) ==
  Node("InvocationExpression", <<>>, <<left, attributes, arguments>>)

simpleSequenceExpr(expr, repetition) ==
  Node("SimpleSequenceExpr", <<>>, <<expr, repetition>>)

parenthesizedSequenceExpr(openParen, expr, matchList, closeParen, repetition) ==
  Node("ParenthesizedSequenceExpr", <<openParen, closeParen>>, <<expr, matchList, repetition>>)

delayedSequenceElement(hash, delayVal, openBracket, op, selector, closeBracket, expr) ==
  Node("DelayedSequenceElement", <<hash, openBracket, op, closeBracket>>,
       <<delayVal, selector, expr>>)

delayedSequenceExpr(first, elements) ==
  Node("DelayedSequenceExpr", <<>>, <<first, ListNode(elements)>>)

binarySequenceExpr(kind, left, opToken, right) == Node(kind, <<opToken>>, <<left, right>>)

simplePropertyExpr(expr) == Node("SimplePropertyExpr", <<>>, <<expr>>)

binaryPropertyExpr(kind, left, opToken, right) == Node(kind, <<opToken>>, <<left, right>>)

\* ---------------------------------------------------------------- lookahead scanners
scanEnd(endPred, kind) ==
  \/ kind = "EndOfFile"
  \/ IF endPred = "isSemicolon" THEN isSemicolon(kind) ELSE isNotInType(kind)

RECURSIVE scanTypePart(_, _, _, _, _, _)
\* returns [found, index, s]; index is the offset after the scanned group, s the parser
\* state the scan leaves
scanTypePart(s, endPred, index, start, end, nesting) ==
  LET kind == peekKindAt(s, index) IN
  IF scanEnd(endPred, kind) THEN [found |-> FALSE, index |-> index, s |-> s]
  ELSE IF kind = start THEN scanTypePart(s, endPred, index + 1, start, end, nesting + 1)
  ELSE IF kind = end THEN
         IF nesting - 1 <= 0 THEN [found |-> TRUE, index |-> index + 1, s |-> s]
         ELSE scanTypePart(s, endPred, index + 1, start, end, nesting - 1)
  ELSE scanTypePart(s, endPred, index + 1, start, end, nesting)

closerOf(kind) ==
  CASE kind = "OpenParenthesis" -> "CloseParenthesis"
    [] kind = "OpenBrace" -> "CloseBrace"
    [] OTHER -> "CloseBracket"

RECURSIVE isConditionalExpressionFrom(_, _)
\* the loop of isConditionalExpression from offset index; returns [found, s]
isConditionalExpressionFrom(s, index) ==
  LET kind == peekKindAt(s, index) IN
  IF kind = "Question" THEN [found |-> TRUE, s |-> s]
  ELSE IF kind = "CloseParenthesis" THEN [found |-> FALSE, s |-> s]
  ELSE IF kind \in {"OpenParenthesis", "OpenBrace", "OpenBracket"} THEN
         LET sc == scanTypePart(s, "isNotInType", index + 1, kind, closerOf(kind), 1) IN
         IF ~sc.found THEN [found |-> FALSE, s |-> sc.s]
         ELSE isConditionalExpressionFrom(sc.s, sc.index)
  ELSE IF isNotInType(kind) THEN [found |-> FALSE, s |-> s]
  ELSE isConditionalExpressionFrom(s, index + 1)

\* a variant that commits without looking ahead
isConditionalExpressionAlways(s) == [found |-> TRUE, s |-> s]

isConditionalExpression(s) == isConditionalExpressionFrom(s, 1)

\* a variant that reads the bracket with consume() and looks at the tokens after it
isSequenceRepetitionConsuming(s) ==
  LET bracket == consume(s)
      k == peekKindAt(bracket.s, 0)
  IN [found |-> IF k \in {"Star", "Equals", "MinusArrow"} THEN TRUE
                ELSE IF k = "Plus" THEN peekKindAt(bracket.s, 1) = "CloseBracket"
                ELSE FALSE,
      s |-> bracket.s]

\* a variant that takes every `[` for an element select
isSequenceRepetitionNever(s) == [found |-> FALSE, s |-> s]

\* returns [found, s]
isSequenceRepetition(s) ==
  LET k == peekKindAt(s, 1)
  IN [found |-> IF k \in {"Star", "Equals", "MinusArrow"} THEN TRUE
                ELSE IF k = "Plus" THEN peekKindAt(s, 2) = "CloseBracket"
                ELSE FALSE,
      s |-> s]

\* a variant that sees no continuation after a closing parenthesis
neverContinuation(kind) == FALSE

\* a variant that takes the open bracket for a continuation as well
continuationOrBracket(kind) ==
  IF kind \in {"Dot", "OpenParenthesis", "OpenParenthesisStar", "Apostrophe",
               "DistKeyword", "Question", "OpenBracket"}
    THEN TRUE
    ELSE getBinaryExpression(kind) # "Unknown"

isBinaryOrPostfixExpression(kind) ==
  IF kind \in {"Dot", "OpenParenthesis", "OpenParenthesisStar", "Apostrophe",
               "DistKeyword", "Question"}
    THEN TRUE
    ELSE getBinaryExpression(kind) # "Unknown"

RECURSIVE isNewExpr(_)
isNewExpr(expr) ==
  IF expr.kind = "ConstructorName" THEN TRUE
  ELSE IF expr.kind # "ScopedName" THEN FALSE
  ELSE isNewExpr(expr.kids[2])

\* ---------------------------------------------------------------- calls and returns
\* a rule's locals are a record; Bind adds or replaces fields
Bind(v, fields) == fields @@ v

NoArgs == [none |-> TRUE]

\* the rule calls `rule` with `args` in state s and resumes at pc with locals v
CallTo(rule, args, s, pc, v) ==
  [op |-> "call", rule |-> rule, args |-> args, s |-> s, pc |-> pc, v |-> v]

\* the rule returns r in state s
Ret(r, s) == [op |-> "ret", r |-> r, s |-> s]

\* resuming at ReturnCallee returns what the callee returned: `return callee(...)`
ReturnCallee == 0 - 1

\* ---------------------------------------------------------------- ParserBase lists
\* items of a list are parsed by the rule the caller names
Item(rule, args) == [rule |-> rule, args |-> args]

skipDiag(s, code) == IF haveDiagAtCurrentLoc(s) THEN s ELSE addDiag(s, code, location(s))

RECURSIVE skipBadTokens(_, _, _)
\* returns [abort, s]
skipBadTokens(s, expectedPred, endPred) ==
  LET kind == peekKind(s) IN
  IF IsExpected(expectedPred, kind) THEN [abort |-> FALSE, s |-> s]
  ELSE IF kind = "EndOfFile" \/ IsEnd(endPred, kind) THEN [abort |-> TRUE, s |-> s]
  ELSE skipBadTokens(skipToken(s), expectedPred, endPred)

ListDone(buffer, c) == [next |-> "done", buf |-> buffer, close |-> c.t, s |-> c.s]

RECURSIVE listSeparator(_, _, _, _)
\* after an item: the list ends, or a separator is taken and another item follows
listSeparator(start, s, buffer, v) ==
  LET kind == peekKind(s) IN
  IF IsEnd(v.endPred, kind) THEN ListDone(buffer, expect(s, v.closeKind))
  ELSE IF ~IsExpected(v.expectedPred, kind) /\ kind # v.separatorKind THEN
    LET sk == skipBadTokens(skipDiag(s, v.code), v.expectedPred, v.endPred) IN
    IF sk.abort THEN ListDone(buffer, expect(sk.s, v.closeKind))
    ELSE listSeparator(start, sk.s, buffer, v)
  ELSE
    LET sep == expect(s, v.separatorKind)
        buf1 == Append(buffer, TokenNode(sep.t))
    IN IF IsEnd(v.endPred, peekKind(sep.s)) THEN
         IF v.allowEmpty THEN [next |-> "last", buf |-> buf1, close |-> EmptyToken, s |-> sep.s]
         ELSE ListDone(buf1, expect(addDiag(sep.s, v.code, location(sep.s)), v.closeKind))
       ELSE
         \* the item and the separator consumed nothing: skip a token to move on
         LET s1 == IF sep.s.pos = start THEN skipToken(skipDiag(sep.s, v.code)) ELSE sep.s IN
         IF IsEnd(v.endPred, peekKind(s1)) THEN ListDone(buf1, expect(s1, v.closeKind))
         ELSE [next |-> "item", buf |-> buf1, close |-> EmptyToken, s |-> s1]

ListArgs(openKind, buffer, expectedPred, endPred, closeKind, separatorKind, requireItems, code, item, allowEmpty) ==
  [openKind |-> openKind, buffer |-> buffer, expectedPred |-> expectedPred,
   endPred |-> endPred, closeKind |-> closeKind, separatorKind |-> separatorKind,
   requireItems |-> requireItems, code |-> code, item |-> item, allowEmpty |-> allowEmpty]

\* returns [open, buf, close]; openKind "None" when the caller consumed the opener
parseList(v, pc, r, s) ==
  CASE pc = 0 ->
         LET op == IF v.openKind = "None" THEN [t |-> EmptyToken, s |-> s]
                   ELSE expect(s, v.openKind)
             s1 == op.s
             current == peekKind(s1)
         IN IF op.t.missing THEN
              Ret([open |-> op.t, buf |-> <<>>,
                   close |-> createMissing(v.closeKind, location(s))], s1)
            ELSE IF IsEnd(v.endPred, current) THEN
              LET c == expect(IF v.requireItems THEN addDiag(s1, v.code, location(s1)) ELSE s1,
                              v.closeKind)
              IN Ret([open |-> op.t, buf |-> v.buffer, close |-> c.t], c.s)
            ELSE IF ~IsExpected(v.expectedPred, current) THEN
              Ret([open |-> op.t, buf |-> v.buffer,
                   close |-> createMissing(v.closeKind, location(s1))], skipDiag(s1, v.code))
            ELSE CallTo(v.item.rule, v.item.args, s1, 1,
                        Bind(v, [open |-> op.t, start |-> s1.pos]))
    [] pc = 1 ->
         LET d == listSeparator(v.start, s, Append(v.buffer, r), v) IN
         IF d.next = "done" THEN Ret([open |-> v.open, buf |-> d.buf, close |-> d.close], d.s)
         ELSE IF d.next = "item" THEN
           CallTo(v.item.rule, v.item.args, d.s, 1, Bind(v, [buffer |-> d.buf, start |-> d.s.pos]))
         ELSE CallTo(v.item.rule, v.item.args, d.s, 2, Bind(v, [buffer |-> d.buf]))
    [] pc = 2 ->
         LET c == expect(s, v.closeKind)
         IN Ret([open |-> v.open, buf |-> Append(v.buffer, r), close |-> c.t], c.s)

\* ParserBase / other translation units: attributes, data types, dist lists, constraints
parseAttributes(s) ==
  IF ~peekIs(s, "OpenParenthesisStar") THEN R(NoAttributes, s)
  ELSE LET op == consume(s)
           name == expect(op.s, "Identifier")
           cl == expect(name.s, "StarCloseParenthesis")
       IN R(ListNode(<<Node("AttributeInstance", <<op.t, name.t, cl.t>>, <<>>)>>), cl.s)

parseDataType(s) == LET k == consume(s) IN R(Node("IntType", <<k.t>>, <<>>), k.s)

parseEdgeKeyword(s) ==
  IF peekKind(s) \in {"PosEdgeKeyword", "NegEdgeKeyword", "EdgeKeyword"}
    THEN consume(s) ELSE [t |-> EmptyToken, s |-> s]

parseDistConstraintList(v, pc, r, s) ==
  CASE pc = 0 ->
         LET dist == consume(s)
         IN CallTo("parseList",
                   ListArgs("OpenBrace", <<>>, "isPossibleExpressionOrComma",
                            "isEndOfBracedList", "CloseBrace", "Comma", TRUE,
                            "ExpectedDistItem", Item("parseExpression", NoArgs), FALSE),
                   dist.s, 1, Bind(v, [dist |-> dist.t]))
    [] pc = 1 -> Ret(Node("DistConstraintList", <<v.dist, r.open, r.close>>, r.buf), s)

parseConstraintBlock(s) ==
  LET op == consume(s)
      cl == expect(op.s, "CloseBrace")
  IN R(Node("ConstraintBlock", <<op.t, cl.t>>, <<>>), cl.s)

\* NumberParser: an integer is one literal token, or [size] base digits
parseIntegerExpression(s, disallowVector) ==
  LET first == consume(s) IN
  IF disallowVector THEN
    R(literalExpression("IntegerLiteralExpression", first.t),
      IF first.t.kind = "IntegerBase"
        THEN addDiag(first.s, "ExpectedIntegerLiteral", first.t.at) ELSE first.s)
  ELSE IF first.t.kind = "IntegerBase" THEN
    LET digits == expect(first.s, "IntegerLiteral") IN
    R(Node("IntegerVectorExpression", <<EmptyToken, first.t, digits.t>>, <<>>), digits.s)
  ELSE IF peekIs(first.s, "IntegerBase") THEN
    LET base == consume(first.s)
        digits == expect(base.s, "IntegerLiteral")
    IN R(Node("IntegerVectorExpression", <<first.t, base.t, digits.t>>, <<>>), digits.s)
  ELSE R(literalExpression("IntegerLiteralExpression", first.t), first.s)

\* ---------------------------------------------------------------- expressions
parseExpression(v, pc, r, s) ==
  CallTo("parseSubExpression", [options |-> {}, precedence |-> 0], s, ReturnCallee, v)

parseMinTypMaxExpression(v, pc, r, s) ==
  CASE pc = 0 -> CallTo("parseExpression", NoArgs, s, 1, v)
    [] pc = 1 ->
         IF ~peekIs(s, "Colon") THEN Ret(r, s)
         ELSE LET colon1 == consume(s)
              IN CallTo("parseExpression", NoArgs, colon1.s, 2,
                        Bind(v, [first |-> r, colon1 |-> colon1.t]))
    [] pc = 2 ->
         LET colon2 == expect(s, "Colon")
         IN CallTo("parseExpression", NoArgs, colon2.s, 3,
                   Bind(v, [typ |-> r, colon2 |-> colon2.t]))
    [] pc = 3 ->
         Ret(Node("MinTypMaxExpression", <<v.colon1, v.colon2>>, <<v.first, v.typ, r>>), s)

parseExpressionOrDist(v, pc, r, s) ==
  CASE pc = 0 ->
         CallTo("parseSubExpression", [options |-> v.options, precedence |-> 0], s, 1, v)
    [] pc = 1 ->
         IF ~peekIs(s, "DistKeyword") THEN Ret(r, s)
         ELSE CallTo("parseDistConstraintList", NoArgs, s, 2, Bind(v, [expr |-> r]))
    [] pc = 2 -> Ret(Node("ExpressionOrDist", <<>>, <<v.expr, r>>), s)

\* a variant whose early return for a tagged union keeps the depth it took
parseSubExpressionLeaking(v, pc, r, s0) ==
  CASE pc = 0 ->
         IF depthExceeded(s0) THEN Ret(ErrorNode(location(s0)), tooDeep(s0))
         ELSE
           LET s == setDepthGuard(s0)
               current == peekKind(s)
               opKind == getUnaryPrefixExpression(current)
           IN IF isPossibleDelayOrEventControl(current) THEN
                CallTo("parseTimingControl", NoArgs, s, 1, v)
              ELSE IF current = "TaggedKeyword" THEN
                LET tagged == consume(s)
                    member == expect(tagged.s, "Identifier")
                IN Ret(Node("TaggedUnionExpression", <<tagged.t, member.t>>, <<NullNode>>),
                       member.s)
              ELSE IF opKind # "Unknown" THEN
                LET opToken == consume(s)
                    attributes == parseAttributes(opToken.s)
                IN CallTo("parsePrimaryExpression", [options |-> v.options], attributes.s, 3,
                          Bind(v, [opKind |-> opKind, opToken |-> opToken.t,
                                   attributes |-> attributes.n]))
              ELSE CallTo("parsePrimaryExpression", [options |-> v.options], s, 5, v)
    [] pc = 1 -> CallTo("parseExpression", NoArgs, s0, 2, Bind(v, [timingControl |-> r]))
    [] pc = 2 ->
         CallTo("parsePostfixExpression",
                [lhs |-> Node("TimingControlExpression", <<>>, <<v.timingControl, r>>),
                 options |-> v.options], s0, 7, v)
    [] pc = 3 ->
         CallTo("parsePostfixExpression", [lhs |-> r, options |-> v.options], s0, 4, v)
    [] pc = 4 ->
         CallTo("parseBinaryExpression",
                [left |-> prefixUnaryExpression(v.opKind, v.opToken, v.attributes, r),
                 options |-> v.options \ {"AllowSuperNewCall"}, precedence |-> v.precedence],
                s0, 7, v)
    [] pc = 5 ->
         IF isNewExpr(r)
           THEN CallTo("parseNewExpression", [newKeyword |-> r, options |-> v.options], s0, 7, v)
           ELSE CallTo("parsePostfixExpression", [lhs |-> r, options |-> v.options], s0, 6, v)
    [] pc = 6 ->
         CallTo("parseBinaryExpression",
                [left |-> r, options |-> v.options \ {"AllowSuperNewCall"},
                 precedence |-> v.precedence], s0, 7, v)
    [] pc = 7 -> Ret(r, releaseDepthGuard(s0))

parseSubExpression(v, pc, r, s0) ==
  CASE pc = 0 ->
         IF depthExceeded(s0) THEN Ret(ErrorNode(location(s0)), tooDeep(s0))
         ELSE
           LET s == setDepthGuard(s0)
               current == peekKind(s)
               opKind == getUnaryPrefixExpression(current)
           IN IF isPossibleDelayOrEventControl(current) THEN
                CallTo("parseTimingControl", NoArgs, s, 1, v)
              ELSE IF current = "TaggedKeyword" THEN
                LET tagged == consume(s)
                    member == expect(tagged.s, "Identifier")
                IN Ret(Node("TaggedUnionExpression", <<tagged.t, member.t>>, <<NullNode>>),
                       releaseDepthGuard(member.s))
              ELSE IF opKind # "Unknown" THEN
                LET opToken == consume(s)
                    attributes == parseAttributes(opToken.s)
                IN CallTo("parsePrimaryExpression", [options |-> v.options], attributes.s, 3,
                          Bind(v, [opKind |-> opKind, opToken |-> opToken.t,
                                   attributes |-> attributes.n]))
              ELSE CallTo("parsePrimaryExpression", [options |-> v.options], s, 5, v)
    [] pc = 1 -> CallTo("parseExpression", NoArgs, s0, 2, Bind(v, [timingControl |-> r]))
    [] pc = 2 ->
         CallTo("parsePostfixExpression",
                [lhs |-> Node("TimingControlExpression", <<>>, <<v.timingControl, r>>),
                 options |-> v.options], s0, 7, v)
    [] pc = 3 ->
         CallTo("parsePostfixExpression", [lhs |-> r, options |-> v.options], s0, 4, v)
    [] pc = 4 ->
         CallTo("parseBinaryExpression",
                [left |-> prefixUnaryExpression(v.opKind, v.opToken, v.attributes, r),
                 options |-> v.options \ {"AllowSuperNewCall"}, precedence |-> v.precedence],
                s0, 7, v)
    [] pc = 5 ->
         IF isNewExpr(r)
           THEN CallTo("parseNewExpression", [newKeyword |-> r, options |-> v.options], s0, 7, v)
           ELSE CallTo("parsePostfixExpression", [lhs |-> r, options |-> v.options], s0, 6, v)
    [] pc = 6 ->
         CallTo("parseBinaryExpression",
                [left |-> r, options |-> v.options \ {"AllowSuperNewCall"},
                 precedence |-> v.precedence], s0, 7, v)
    [] pc = 7 -> Ret(r, releaseDepthGuard(s0))

\* variants of the break test: one that never breaks, one that ignores associativity
takeAlways(newPrecedence, precedence, opKind) == TRUE

takeByPrecedenceOnly(newPrecedence, precedence, opKind) == ~(newPrecedence < precedence)

\* lines 122-127: the operator belongs to this level and not to the parent's
takeOperator(newPrecedence, precedence, opKind) ==
  /\ ~(newPrecedence < precedence)
  /\ ~(newPrecedence = precedence /\ ~isRightAssociative(opKind))

\* a variant that never reads the context flag
keepOperator(opKind, options) == opKind

\* lines 114-117: `<=` is a nonblocking assignment while the context flag is set
resolveOperator(opKind, options) ==
  IF opKind = "LessThanEqualExpression" /\ "ProceduralAssignmentContext" \in options
    THEN "NonblockingAssignmentExpression" ELSE opKind

\* a variant that parses the branches at the level of logical-or itself
logicalOrLevel == getPrecedence("LogicalOrExpression")

\* lines 156 and 158: both branches of a conditional are parsed one level below logical-or
branchPrecedence == getPrecedence("LogicalOrExpression") - 1

\* lines 143-161, entered with the token and the options the loop ended on
binaryConditional(v, s) ==
  LET current == peekKind(s)
      logicalOrPrecedence == getPrecedence("LogicalOrExpression")
      scan == IF current \in {"MatchesKeyword", "TripleAnd"}
                THEN isConditionalExpression(s)
                ELSE [found |-> current = "Question", s |-> s]
  IN IF "PatternContext" \notin v.options /\ v.precedence < logicalOrPrecedence
       THEN IF scan.found
              THEN CallTo("parseConditionalPredicate",
                          [first |-> v.left, endKind |-> "Question"], scan.s, 3, v)
              ELSE Ret(v.left, scan.s)
       ELSE Ret(v.left, s)

\* a variant that folds the implication in every context
ownedByConstraintNever(opKind, options) == FALSE

\* lines 106-110: the implication operator belongs to the constraint grammar
ownedByConstraint(opKind, options) ==
  opKind = "LogicalImplicationExpression" /\ "ConstraintContext" \in options

\* one pass of the while loop of parseBinaryExpression, lines 99-138
binaryClimb(v, s) ==
  LET current == peekKind(s)
      opKind0 == getBinaryExpression(current)
      opKind == resolveOperator(opKind0, v.options)
      options1 == v.options \ {"ProceduralAssignmentContext"}
      newPrecedence == getPrecedence(opKind)
  IN IF opKind0 = "Unknown" THEN binaryConditional(v, s)
     ELSE IF ownedByConstraint(opKind0, v.options)
       THEN binaryConditional(v, s)
     ELSE IF ~takeOperator(newPrecedence, v.precedence, opKind)
       THEN binaryConditional(Bind(v, [options |-> options1]), s)
     ELSE IF opKind = "InsideExpression" THEN
       CallTo("parseInsideExpression", [expr |-> v.left], s, 1,
              Bind(v, [options |-> options1, start |-> s.pos]))
     ELSE
       LET opToken == consume(s)
           attributes == parseAttributes(opToken.s)
       IN CallTo("parseSubExpression", [options |-> options1, precedence |-> newPrecedence],
                 attributes.s, 2,
                 Bind(v, [options |-> options1, start |-> s.pos, opKind |-> opKind,
                          opToken |-> opToken.t, attributes |-> attributes.n]))

\* the loop goes round again with the new left operand
binaryAgain(v, left, s) ==
  IF s.pos <= v.start THEN Ret(left, MarkStuck(s))
  ELSE binaryClimb(Bind(v, [left |-> left]), s)

parseBinaryExpression(v, pc, r, s) ==
  CASE pc = 0 -> binaryClimb(v, s)
    [] pc = 1 -> binaryAgain(v, r, s)
    [] pc = 2 ->
         binaryAgain(v, binaryExpression(v.opKind, v.left, v.opToken, v.attributes, r), s)
    [] pc = 3 ->
         LET attributes == parseAttributes(s)
         IN CallTo("parseSubExpression",
                   [options |-> v.options, precedence |-> branchPrecedence],
                   attributes.s, 4,
                   Bind(v, [predicate |-> r.n, question |-> r.end,
                            attributes |-> attributes.n]))
    [] pc = 4 ->
         LET colon == expect(s, "Colon")
         IN CallTo("parseSubExpression",
                   [options |-> v.options, precedence |-> branchPrecedence],
                   colon.s, 5, Bind(v, [lhs |-> r, colon |-> colon.t]))
    [] pc = 5 ->
         Ret(conditionalExpression(v.predicate, v.question, v.attributes, v.lhs, v.colon, r),
             s)

parsePrimaryExpression(v, pc, r, s) ==
  LET kind == peekKind(s) IN
  CASE pc = 0 ->
         IF kind \in {"StringLiteral", "UnbasedUnsizedLiteral", "NullKeyword", "OneStep",
                      "Dollar"} THEN
           LET literal == consume(s)
           IN Ret(literalExpression(getLiteralExpression(literal.t.kind), literal.t),
                  literal.s)
         ELSE IF kind = "TimeLiteral" THEN
           LET t == consume(s) IN Ret(literalExpression("TimeLiteralExpression", t.t), t.s)
         ELSE IF kind = "RealLiteral" THEN
           LET t == consume(s) IN Ret(literalExpression("RealLiteralExpression", t.t), t.s)
         ELSE IF kind \in {"IntegerLiteral", "IntegerBase"} THEN
           LET e == parseIntegerExpression(s, "DisallowVectors" \in v.options)
           IN Ret(e.n, e.s)
         ELSE IF kind = "OpenParenthesis" THEN
           LET openParen == consume(s)
           IN CallTo("parseMinTypMaxExpression", NoArgs, openParen.s, 1,
                     Bind(v, [openParen |-> openParen.t]))
         ELSE IF kind = "ApostropheOpenBrace" THEN
           CallTo("parseAssignmentPatternExpression", [type |-> NullNode], s, ReturnCallee, v)
         ELSE IF kind = "OpenBrace" THEN
           LET openBrace == consume(s)
               k2 == peekKind(openBrace.s)
           IN IF k2 = "CloseBrace" THEN
                LET cb == consume(openBrace.s)
                IN Ret(Node("EmptyQueueExpression", <<openBrace.t, cb.t>>, <<>>), cb.s)
              ELSE IF k2 \in {"LeftShift", "RightShift"} THEN
                CallTo("parseStreamConcatenation", [openBrace |-> openBrace.t], openBrace.s,
                       ReturnCallee, v)
              ELSE CallTo("parseExpression", NoArgs, openBrace.s, 2,
                          Bind(v, [openBrace |-> openBrace.t]))
         ELSE IF kind \in {"SignedKeyword", "UnsignedKeyword", "ConstKeyword"} THEN
           LET signing == consume(s)
               apostrophe == expect(signing.s, "Apostrophe")
               openParen == expect(apostrophe.s, "OpenParenthesis")
           IN CallTo("parseExpression", NoArgs, openParen.s, 4,
                     Bind(v, [signing |-> signing.t, apostrophe |-> apostrophe.t,
                              openParen |-> openParen.t]))
         ELSE IF kind = "SystemIdentifier" THEN
           LET t == consume(s) IN Ret(Node("SystemName", <<t.t>>, <<>>), t.s)
         ELSE IF isPossibleDataType(kind) /\ kind # "Identifier" /\ kind # "UnitSystemName" THEN
           LET type == parseDataType(s) IN
           IF peekIs(type.s, "ApostropheOpenBrace")
             THEN CallTo("parseAssignmentPatternExpression", [type |-> type.n], type.s,
                         ReturnCallee, v)
             ELSE Ret(type.n, type.s)
         ELSE
           LET nameOptions == {"ExpectingExpression"} \cup
                              (IF "SequenceExpr" \in v.options THEN {"SequenceExpr"} ELSE {})
           IN CallTo("parseName", [options |-> nameOptions], s, 5, v)
    [] pc = 1 ->
         LET closeParen == expect(s, "CloseParenthesis")
         IN Ret(parenthesizedExpression(v.openParen, r, closeParen.t), closeParen.s)
    [] pc = 2 ->
         IF ~peekIs(s, "OpenBrace")
           THEN CallTo("parseConcatenation", [openBrace |-> v.openBrace, first |-> r], s,
                       ReturnCallee, v)
           ELSE LET openBraceInner == consume(s)
                IN CallTo("parseConcatenation",
                          [openBrace |-> openBraceInner.t, first |-> NullNode],
                          openBraceInner.s, 3, Bind(v, [first |-> r]))
    [] pc = 3 ->
         LET closeBrace == expect(s, "CloseBrace")
         IN Ret(Node("MultipleConcatenationExpression", <<v.openBrace, closeBrace.t>>,
                     <<v.first, r>>), closeBrace.s)
    [] pc = 4 ->
         LET closeParen == expect(s, "CloseParenthesis")
         IN Ret(Node("SignedCastExpression", <<v.signing, v.apostrophe>>,
                     <<parenthesizedExpression(v.openParen, r, closeParen.t)>>), closeParen.s)
    [] pc = 5 ->
         IF peekIs(s, "ApostropheOpenBrace")
           THEN CallTo("parseAssignmentPatternExpression",
                       [type |-> Node("NamedType", <<>>, <<r>>)], s, ReturnCallee, v)
           ELSE Ret(r, s)

parseInsideExpression(v, pc, r, s) ==
  CASE pc = 0 ->
         LET inside == expect(s, "InsideKeyword")
         IN CallTo("parseOpenRangeList", NoArgs, inside.s, 1, Bind(v, [inside |-> inside.t]))
    [] pc = 1 -> Ret(Node("InsideExpression", <<v.inside>>, <<v.expr, r>>), s)

parseOpenRangeList(v, pc, r, s) ==
  CASE pc = 0 ->
         CallTo("parseList",
                ListArgs("OpenBrace", <<>>, "isPossibleOpenRangeElement", "isEndOfBracedList",
                         "CloseBrace", "Comma", TRUE, "ExpectedOpenRangeElement",
                         Item("parseOpenRangeElement", NoArgs), FALSE), s, 1, v)
    [] pc = 1 -> Ret(Node("OpenRangeList", <<r.open, r.close>>, r.buf), s)

parseOpenRangeElement(v, pc, r, s) ==
  CASE pc = 0 ->
         IF ~peekIs(s, "OpenBracket") THEN CallTo("parseExpression", NoArgs, s, ReturnCallee, v)
         ELSE LET openBracket == consume(s)
              IN CallTo("parseExpression", NoArgs, openBracket.s, 1,
                        Bind(v, [openBracket |-> openBracket.t]))
    [] pc = 1 ->
         LET colon == expect(s, "Colon")
         IN CallTo("parseExpression", NoArgs, colon.s, 2,
                   Bind(v, [left |-> r, colon |-> colon.t]))
    [] pc = 2 ->
         LET closeBracket == expect(s, "CloseBracket")
         IN Ret(Node("OpenRangeExpression", <<v.openBracket, v.colon, closeBracket.t>>,
                     <<v.left, r>>), closeBracket.s)

parseConcatenation(v, pc, r, s) ==
  CASE pc = 0 ->
         IF v.first # NullNode /\ peekIs(s, "CloseBrace") THEN
           LET cb == consume(s)
           IN Ret(Node("ConcatenationExpression", <<v.openBrace, cb.t>>, <<v.first>>), cb.s)
         ELSE
           LET comma == IF v.first # NullNode THEN expect(s, "Comma")
                        ELSE [t |-> EmptyToken, s |-> s]
               buffer == IF v.first # NullNode THEN <<v.first, TokenNode(comma.t)>> ELSE <<>>
           IN CallTo("parseList",
                     ListArgs("None", buffer, "isPossibleExpressionOrComma",
                              "isEndOfBracedList", "CloseBrace", "Comma", FALSE,
                              "ExpectedExpression", Item("parseExpression", NoArgs), FALSE),
                     comma.s, 1, v)
    [] pc = 1 -> Ret(Node("ConcatenationExpression", <<v.openBrace, r.close>>, r.buf), s)

parseStreamConcatenation(v, pc, r, s) ==
  CASE pc = 0 ->
         LET op == consume(s) IN
         IF ~peekIs(op.s, "OpenBrace")
           THEN CallTo("parseExpression", NoArgs, op.s, 1, Bind(v, [op |-> op.t]))
           ELSE CallTo("parseList",
                       ListArgs("OpenBrace", <<>>, "isPossibleExpressionOrComma",
                                "isEndOfBracedList", "CloseBrace", "Comma", TRUE,
                                "ExpectedStreamExpression",
                                Item("parseStreamExpression", NoArgs), FALSE),
                       op.s, 2, Bind(v, [op |-> op.t, sliceSize |-> NullNode]))
    [] pc = 1 ->
         CallTo("parseList",
                ListArgs("OpenBrace", <<>>, "isPossibleExpressionOrComma",
                         "isEndOfBracedList", "CloseBrace", "Comma", TRUE,
                         "ExpectedStreamExpression",
                         Item("parseStreamExpression", NoArgs), FALSE),
                s, 2, Bind(v, [sliceSize |-> r]))
    [] pc = 2 ->
         LET closeBrace == expect(s, "CloseBrace")
         IN Ret(Node("StreamingConcatenationExpression",
                     <<v.openBrace, v.op, r.open, r.close, closeBrace.t>>,
                     <<v.sliceSize, ListNode(r.buf)>>), closeBrace.s)

parseStreamExpression(v, pc, r, s) ==
  CASE pc = 0 -> CallTo("parseExpression", NoArgs, s, 1, v)
    [] pc = 1 ->
         IF peekIs(s, "WithKeyword") THEN
           LET with == consume(s)
           IN CallTo("parseElementSelect", NoArgs, with.s, 2,
                     Bind(v, [expr |-> r, with |-> with.t]))
         ELSE Ret(Node("StreamExpression", <<>>, <<r, NullNode>>), s)
    [] pc = 2 ->
         Ret(Node("StreamExpression", <<>>,
                  <<v.expr, Node("StreamExpressionWithRange", <<v.with>>, <<r>>)>>), s)

assignmentPatternExpression(type, pattern) ==
  Node("AssignmentPatternExpression", <<>>, <<type, pattern>>)

\* a variant that makes the missing comma without reporting it
missingCommaUnreported(s) == [t |-> createMissing("Comma", location(s)), s |-> s]

\* line 440: the comma the malformed pattern lacks
missingComma(s) == expect(s, "Comma")

\* a variant that reads every pattern as a simple list
assignmentPatternRestAsList(v, firstExpr, s) ==
  LET comma == expect(s, "Comma")
  IN CallTo("parseList",
            ListArgs("None", <<firstExpr, TokenNode(comma.t)>>, "isPossibleExpressionOrComma",
                     "isEndOfBracedList", "CloseBrace", "Comma", FALSE, "ExpectedExpression",
                     Item("parseExpression", NoArgs), FALSE),
            comma.s, 5, Bind(v, [firstExpr |-> firstExpr]))

\* lines 390-449, with the first expression parsed
assignmentPatternRest(v, firstExpr, s) ==
  LET k == peekKind(s)
      exprList(buffer, requireItems, from, pc) ==
        CallTo("parseList",
               ListArgs("None", buffer, "isPossibleExpressionOrComma", "isEndOfBracedList",
                        "CloseBrace", "Comma", requireItems, "ExpectedExpression",
                        Item("parseExpression", NoArgs), FALSE),
               from, pc, Bind(v, [firstExpr |-> firstExpr]))
  IN IF k = "Colon" THEN
       CallTo("parseAssignmentPatternItem", [key |-> firstExpr], s, 2, v)
     ELSE IF k = "OpenBrace" THEN
       LET innerOpenBrace == consume(s)
       IN CallTo("parseList",
                 ListArgs("None", <<>>, "isPossibleExpressionOrComma", "isEndOfBracedList",
                          "CloseBrace", "Comma", TRUE, "ExpectedExpression",
                          Item("parseExpression", NoArgs), FALSE),
                 innerOpenBrace.s, 4,
                 Bind(v, [firstExpr |-> firstExpr, innerOpenBrace |-> innerOpenBrace.t]))
     ELSE IF k = "Comma" THEN
       LET comma == consume(s)
       IN exprList(<<firstExpr, TokenNode(comma.t)>>, TRUE, comma.s, 5)
     ELSE IF k = "CloseBrace" THEN
       LET closeBrace == consume(s)
       IN Ret(assignmentPatternExpression(v.type,
                Node("SimpleAssignmentPattern", <<v.openBrace, closeBrace.t>>,
                     <<firstExpr>>)), closeBrace.s)
     ELSE
       LET comma == missingComma(s)
       IN exprList(<<firstExpr, TokenNode(comma.t)>>, FALSE, comma.s, 5)

parseAssignmentPatternExpression(v0, pc, r, s) ==
  CASE pc = 0 ->
         LET openBrace == expect(s, "ApostropheOpenBrace")
             s1 == openBrace.s
             v == Bind(v0, [openBrace |-> openBrace.t])
         IN IF peekIs(s1, "DefaultKeyword") THEN
              LET d == consume(s1)
              IN assignmentPatternRest(v, literalExpression("DefaultPatternKeyExpression", d.t),
                                       d.s)
            ELSE IF peekIs(s1, "CloseBrace") THEN
              LET s2 == addDiag(s1, "EmptyAssignmentPattern", openBrace.t.at)
                  cb == consume(s2)
              IN Ret(assignmentPatternExpression(v.type,
                       Node("SimpleAssignmentPattern", <<openBrace.t, cb.t>>, <<>>)), cb.s)
            ELSE CallTo("parseExpression", NoArgs, s1, 1, v)
    [] pc = 1 -> assignmentPatternRest(v0, r, s)
    [] pc = 2 ->
         IF peekIs(s, "Comma") THEN
           LET comma == consume(s)
           IN CallTo("parseList",
                     ListArgs("None", <<r, TokenNode(comma.t)>>,
                              "isPossibleExpressionOrCommaOrDefault", "isEndOfBracedList",
                              "CloseBrace", "Comma", FALSE, "ExpectedAssignmentKey",
                              Item("parseAssignmentPatternItem", [key |-> NullNode]), FALSE),
                     comma.s, 3, v0)
         ELSE
           LET closeBrace == expect(s, "CloseBrace")
           IN Ret(assignmentPatternExpression(v0.type,
                    Node("StructuredAssignmentPattern", <<v0.openBrace, closeBrace.t>>,
                         <<r>>)), closeBrace.s)
    [] pc = 3 ->
         Ret(assignmentPatternExpression(v0.type,
               Node("StructuredAssignmentPattern", <<v0.openBrace, r.close>>, r.buf)), s)
    [] pc = 4 ->
         LET outer == expect(s, "CloseBrace")
         IN Ret(assignmentPatternExpression(v0.type,
                  Node("ReplicatedAssignmentPattern",
                       <<v0.openBrace, v0.innerOpenBrace, r.close, outer.t>>,
                       <<v0.firstExpr, ListNode(r.buf)>>)), outer.s)
    [] pc = 5 ->
         Ret(assignmentPatternExpression(v0.type,
               Node("SimpleAssignmentPattern", <<v0.openBrace, r.close>>, r.buf)), s)

parseAssignmentPatternItem(v, pc, r, s) ==
  LET value(key, from) ==
        LET colon == expect(from, "Colon")
        IN CallTo("parseExpression", NoArgs, colon.s, 2,
                  Bind(v, [key |-> key, colon |-> colon.t]))
  IN CASE pc = 0 ->
            IF v.key # NullNode THEN value(v.key, s)
            ELSE IF peekIs(s, "DefaultKeyword") THEN
              LET d == consume(s)
              IN value(literalExpression("DefaultPatternKeyExpression", d.t), d.s)
            ELSE CallTo("parseExpression", NoArgs, s, 1, v)
       [] pc = 1 -> value(r, s)
       [] pc = 2 -> Ret(Node("AssignmentPatternItem", <<v.colon>>, <<v.key, r>>), s)

parseElementSelect(v, pc, r, s) ==
  CASE pc = 0 ->
         LET openBracket == expect(s, "OpenBracket")
         IN CallTo("parseElementSelector", NoArgs, openBracket.s, 1,
                   Bind(v, [openBracket |-> openBracket.t]))
    [] pc = 1 ->
         LET closeBracket == expect(s, "CloseBracket")
         IN Ret(Node("ElementSelect", <<v.openBracket, closeBracket.t>>, <<r>>),
                closeBracket.s)

parseElementSelector(v, pc, r, s) ==
  CASE pc = 0 ->
         IF peekIs(s, "CloseBracket") THEN Ret(NullNode, s)
         ELSE CallTo("parseExpression", NoArgs, s, 1, v)
    [] pc = 1 ->
         LET k == peekKind(s) IN
         IF k \in {"Colon", "PlusColon", "MinusColon"} THEN
           LET range == consume(s)
           IN CallTo("parseExpression", NoArgs, range.s, 2,
                     Bind(v, [expr |-> r, range |-> range.t]))
         ELSE Ret(Node("BitSelect", <<>>, <<r>>), s)
    [] pc = 2 ->
         Ret(Node(CASE v.range.kind = "Colon" -> "SimpleRangeSelect"
                    [] v.range.kind = "PlusColon" -> "AscendingRangeSelect"
                    [] OTHER -> "DescendingRangeSelect",
                  <<v.range>>, <<v.expr, r>>), s)

RECURSIVE postfixChain(_, _, _)
\* the while loop of parsePostfixExpression, from its head with expr the operand so far
postfixChain(v, expr, s) ==
  LET k == peekKind(s)
      again(next, from) ==
        IF from.pos <= s.pos THEN Ret(next, MarkStuck(from)) ELSE postfixChain(v, next, from)
  IN IF k = "OpenBracket" THEN
       LET scan == IF "SequenceExpr" \in v.options THEN isSequenceRepetition(s)
                   ELSE [found |-> FALSE, s |-> s]
       IN IF scan.found THEN Ret(expr, scan.s)
          ELSE CallTo("parseElementSelect", NoArgs, scan.s, 1,
                      Bind(v, [expr |-> expr, start |-> s.pos]))
     ELSE IF k = "Dot" THEN
       LET dot == consume(s)
           name == expect(dot.s, "Identifier")
       IN again(Node("MemberAccessExpression", <<dot.t, name.t>>, <<expr>>), name.s)
     ELSE IF k = "OpenParenthesis" THEN
       CallTo("parseArgumentList",
              [isParamAssignment |-> FALSE, allowClocking |-> expr.kind = "SystemName"],
              s, 2, Bind(v, [expr |-> expr, attributes |-> NullNode, start |-> s.pos]))
     ELSE IF k \in {"DoublePlus", "DoubleMinus"} THEN
       LET op == consume(s)
       IN Ret(Node(getUnaryPostfixExpression(op.t.kind), <<op.t>>, <<expr, NullNode>>), op.s)
     ELSE IF k = "Apostrophe" THEN
       LET apostrophe == consume(s)
           openParen == expect(apostrophe.s, "OpenParenthesis")
       IN CallTo("parseExpression", NoArgs, openParen.s, 3,
                 Bind(v, [expr |-> expr, apostrophe |-> apostrophe.t,
                          openParen |-> openParen.t, start |-> s.pos]))
     ELSE IF k = "OpenParenthesisStar" THEN
       LET attributes == parseAttributes(s)
           k2 == peekKind(attributes.s)
       IN IF k2 \in {"DoublePlus", "DoubleMinus"} THEN
            LET op == consume(attributes.s)
            IN Ret(Node(getUnaryPostfixExpression(op.t.kind), <<op.t>>,
                        <<expr, attributes.n>>), op.s)
          ELSE IF k2 = "OpenParenthesis" THEN
            CallTo("parseArgumentList", [isParamAssignment |-> FALSE, allowClocking |-> FALSE],
                   attributes.s, 2,
                   Bind(v, [expr |-> expr, attributes |-> attributes.n, start |-> s.pos]))
          ELSE again(invocationExpression(expr, attributes.n, NullNode), attributes.s)
     ELSE IF k = "WithKeyword" THEN
       IF peekKindAt(s, 1) = "OpenBracket" THEN Ret(expr, s)
       ELSE CallTo("parseArrayOrRandomizeMethod", [expr |-> expr], s, 4,
                   Bind(v, [expr |-> expr, start |-> s.pos]))
     ELSE Ret(expr, s)

\* the loop goes round again with the new operand
postfixAgain(v, next, s) ==
  IF s.pos <= v.start THEN Ret(next, MarkStuck(s)) ELSE postfixChain(v, next, s)

parsePostfixExpression(v, pc, r, s) ==
  CASE pc = 0 -> postfixChain(v, v.lhs, s)
    [] pc = 1 -> postfixAgain(v, Node("ElementSelectExpression", <<>>, <<v.expr, r>>), s)
    [] pc = 2 -> postfixAgain(v, invocationExpression(v.expr, v.attributes, r), s)
    [] pc = 3 ->
         LET closeParen == expect(s, "CloseParenthesis")
         IN postfixAgain(v, Node("CastExpression", <<v.apostrophe>>,
                                 <<v.expr, parenthesizedExpression(v.openParen, r,
                                                                   closeParen.t)>>),
                         closeParen.s)
    [] pc = 4 -> postfixAgain(v, r, s)

\* lines 646-666: a name that ends on $unit, local, $root or super needs a member
nameTail(v, name, s) ==
  LET expectedKind == IF name.kind \in {"UnitScope", "LocalScope"} THEN "DoubleColon"
                      ELSE IF name.kind \in {"RootScope", "SuperHandle"} THEN "Dot"
                      ELSE "Unknown"
  IN IF expectedKind # "Unknown" THEN
       LET separator == expect(s, expectedKind)
       IN CallTo("parseNamePart", [options |-> v.options], separator.s, 3,
                 Bind(v, [name |-> name, separator |-> separator.t]))
     ELSE Ret(name, s)

\* the while loop of parseName, lines 599-644, from its head
nameLoop(v, name, usedDot, reportedError, previousKind, s) ==
  LET kind == peekKind(s) IN
  IF kind \notin {"Dot", "DoubleColon"} THEN nameTail(v, name, s)
  ELSE
    LET separator == consume(s)
        report == kind = "DoubleColon" /\ usedDot /\ ~reportedError
        s1 == IF report THEN addDiag(separator.s, "InvalidAccessDotColon", separator.t.at)
              ELSE separator.s
        s2 == IF previousKind \in {"UnitScope", "LocalScope"} THEN
                IF kind # "DoubleColon"
                  THEN addDiag(s1, "InvalidAccessDotColon", separator.t.at) ELSE s1
              ELSE IF previousKind \in {"RootScope", "ThisHandle", "SuperHandle"} THEN
                IF kind # "Dot"
                  THEN addDiag(s1, "InvalidAccessDotColon", separator.t.at) ELSE s1
              ELSE IF previousKind = "ConstructorName"
                THEN addDiag(s1, "NewKeywordQualified", separator.t.at)
              ELSE s1
        nextOptions == v.options \cup
                       (IF previousKind = "ThisHandle" THEN {"PreviousWasThis"}
                        ELSE IF previousKind = "LocalScope" THEN {"PreviousWasLocal"}
                        ELSE {})
    IN CallTo("parseNamePart", [options |-> nextOptions], s2, 2,
              Bind(v, [name |-> name, separator |-> separator.t,
                       usedDot |-> usedDot \/ kind = "Dot",
                       reportedError |-> reportedError \/ report, start |-> s.pos]))

parseName(v, pc, r, s) ==
  CASE pc = 0 ->
         CallTo("parseNamePart", [options |-> v.options \cup {"IsFirst"}], s, 1,
                Bind(v, [options |-> v.options \ {"ExpectingExpression"}]))
    [] pc = 1 -> nameLoop(v, r, FALSE, FALSE, r.kind, s)
    [] pc = 2 ->
         IF s.pos <= v.start THEN Ret(scopedName(v.name, v.separator, r), MarkStuck(s))
         ELSE nameLoop(v, scopedName(v.name, v.separator, r), v.usedDot, v.reportedError,
                       r.kind, s)
    [] pc = 3 -> Ret(scopedName(v.name, v.separator, r), s)

\* a variant that also consults the diagnostics an earlier parse has left
missingIdentifierRemembered(s) ==
  [t |-> createMissing("Identifier", location(s)),
   s |-> IF \/ haveDiagAtCurrentLoc(s)
            \/ \E i \in DOMAIN previousCur.diags : previousCur.diags[i].at = location(s)
           THEN s ELSE addDiag(s, "ExpectedExpression", location(s))]

\* a variant that reports the missing identifier whatever is recorded at the location
missingIdentifierReported(s) ==
  [t |-> createMissing("Identifier", location(s)),
   s |-> addDiag(s, "ExpectedExpression", location(s))]

\* lines 706-708: a missing identifier, reported unless the location already has a diagnostic
missingIdentifier(s) ==
  [t |-> createMissing("Identifier", location(s)),
   s |-> IF haveDiagAtCurrentLoc(s) THEN s ELSE addDiag(s, "ExpectedExpression", location(s))]

\* a variant that lets no keyword but `new` start a path
takeKeywordNeverFirst(kind, options) ==
  /\ kind # "Unknown"
  /\ IF kind = "ConstructorName" THEN TRUE
     ELSE IF isSpecialMethodName(kind) THEN "IsFirst" \notin options
     ELSE \/ (kind = "SuperHandle" /\ "PreviousWasThis" \in options)
          \/ (kind \in {"SuperHandle", "ThisHandle"} /\ "PreviousWasLocal" \in options)

\* lines 670-694: the current token is consumed as a keyword name
takeKeyword(kind, options) ==
  /\ kind # "Unknown"
  /\ IF isSpecialMethodName(kind) THEN "IsFirst" \notin options
     ELSE IF kind = "ConstructorName" THEN TRUE
     ELSE \/ "IsFirst" \in options
          \/ (kind = "SuperHandle" /\ "PreviousWasThis" \in options)
          \/ (kind \in {"SuperHandle", "ThisHandle"} /\ "PreviousWasLocal" \in options)

parseNamePart(v, pc, r, s) ==
  CASE pc = 0 ->
         LET kind == getKeywordNameExpression(peekKind(s))
             next == peekKind(s)
             identifier ==
               IF next = "Identifier" THEN consume(s)
               ELSE IF next # "Dot" /\ next # "DoubleColon" /\
                       "ExpectingExpression" \in v.options THEN
                 missingIdentifier(s)
               ELSE expect(s, "Identifier")
             s1 == identifier.s
             k == peekKind(s1)
         IN IF takeKeyword(kind, v.options)
              THEN LET kw == consume(s) IN Ret(keywordName(kind, kw.t), kw.s)
            ELSE IF k = "Hash" THEN
              CallTo("parseParameterValueAssignment", NoArgs, s1, 1,
                     Bind(v, [identifier |-> identifier.t]))
            ELSE IF k = "OpenBracket" THEN
              LET scan == IF "SequenceExpr" \in v.options THEN isSequenceRepetition(s1)
                          ELSE [found |-> FALSE, s |-> s1]
              IN IF scan.found THEN Ret(identifierName(identifier.t), scan.s)
                 ELSE
                   LET sc == scanTypePart(scan.s, "isSemicolon", 1, "OpenBracket",
                                          "CloseBracket", 1)
                   IN IF "ForeachName" \notin v.options \/
                         peekKindAt(sc.s, sc.index) # "CloseParenthesis" THEN
                        CallTo("parseElementSelect", NoArgs, sc.s, 2,
                               Bind(v, [identifier |-> identifier.t, buffer |-> <<>>,
                                        start |-> s1.pos]))
                      ELSE Ret(identifierName(identifier.t), sc.s)
            ELSE Ret(identifierName(identifier.t), s1)
    [] pc = 1 -> Ret(Node("ClassName", <<v.identifier>>, <<r>>), s)
    [] pc = 2 ->
         \* do { parseElementSelect() } while (peek(OpenBracket))
         LET buffer == Append(v.buffer, r) IN
         IF ~peekIs(s, "OpenBracket")
           THEN Ret(Node("IdentifierSelectName", <<v.identifier>>, buffer), s)
         ELSE IF s.pos <= v.start
           THEN Ret(Node("IdentifierSelectName", <<v.identifier>>, buffer), MarkStuck(s))
         ELSE CallTo("parseElementSelect", NoArgs, s, 2,
                     Bind(v, [buffer |-> buffer, start |-> s.pos]))

\* a variant that looks for `##` where the parameter assignment starts
parseParameterValueAssignmentAtDoubleHash(v, pc, r, s) ==
  CASE pc = 0 ->
         IF ~peekIs(s, "DoubleHash") THEN Ret(NullNode, s)
         ELSE LET hash == consume(s)
              IN CallTo("parseArgumentList",
                        [isParamAssignment |-> TRUE, allowClocking |-> FALSE], hash.s, 1,
                        Bind(v, [hash |-> hash.t]))
    [] pc = 1 -> Ret(Node("ParameterValueAssignment", <<v.hash>>, <<r>>), s)

parseParameterValueAssignment(v, pc, r, s) ==
  CASE pc = 0 ->
         IF ~peekIs(s, "Hash") THEN Ret(NullNode, s)
         ELSE LET hash == consume(s)
              IN CallTo("parseArgumentList",
                        [isParamAssignment |-> TRUE, allowClocking |-> FALSE], hash.s, 1,
                        Bind(v, [hash |-> hash.t]))
    [] pc = 1 -> Ret(Node("ParameterValueAssignment", <<v.hash>>, <<r>>), s)

\* a variant that asks parseList for at least one argument
parseArgumentListRequiringItems(v, pc, r, s) ==
  CASE pc = 0 ->
         CallTo("parseList",
                ListArgs("OpenParenthesis", <<>>, "isPossibleArgument", "isEndOfParenList",
                         "CloseParenthesis", "Comma", TRUE, "ExpectedArgument",
                         Item("parseArgument", [isParamAssignment |-> v.isParamAssignment,
                                                allowClocking |-> v.allowClocking]),
                         ~v.isParamAssignment), s, 1, v)
    [] pc = 1 -> Ret(argumentList(r.open, r.buf, r.close), s)

parseArgumentList(v, pc, r, s) ==
  CASE pc = 0 ->
         CallTo("parseList",
                ListArgs("OpenParenthesis", <<>>, "isPossibleArgument", "isEndOfParenList",
                         "CloseParenthesis", "Comma", FALSE, "ExpectedArgument",
                         Item("parseArgument", [isParamAssignment |-> v.isParamAssignment,
                                                allowClocking |-> v.allowClocking]),
                         ~v.isParamAssignment), s, 1, v)
    [] pc = 1 -> Ret(argumentList(r.open, r.buf, r.close), s)

\* ParserBase: a delimited group; without its opener nothing is parsed
parseGroupOrSkip(s, startKind, endKind) ==
  LET st == expect(s, startKind) IN
  IF st.t.missing THEN
    [open |-> st.t, skip |-> TRUE, close |-> createMissing(endKind, location(s)), s |-> st.s]
  ELSE IF peekIs(st.s, endKind) THEN
    LET en == consume(st.s) IN [open |-> st.t, skip |-> TRUE, close |-> en.t, s |-> en.s]
  ELSE [open |-> st.t, skip |-> FALSE, close |-> EmptyToken, s |-> st.s]

parseArgument(v, pc, r, s) ==
  CASE pc = 0 ->
         IF ~v.isParamAssignment /\ (peekIs(s, "Comma") \/ peekIs(s, "CloseParenthesis")) THEN
           Ret(Node("EmptyArgument", <<Token("Placeholder", location(s))>>, <<>>), s)
         ELSE IF peekIs(s, "Dot") THEN
           LET dot == consume(s)
               name == expect(dot.s, "Identifier")
               g == parseGroupOrSkip(name.s, "OpenParenthesis", "CloseParenthesis")
           IN IF g.skip THEN
                Ret(Node("NamedArgument", <<dot.t, name.t, g.open, g.close>>, <<NullNode>>),
                    g.s)
              ELSE CallTo(IF v.isParamAssignment THEN "parseMinTypMaxExpression"
                          ELSE "parseExpression", NoArgs, g.s, 1,
                          Bind(v, [dot |-> dot.t, name |-> name.t, open |-> g.open]))
         ELSE IF v.allowClocking /\ peekIs(s, "At") THEN
           CallTo("parseTimingControl", NoArgs, s, 2, v)
         ELSE CallTo(IF v.isParamAssignment THEN "parseMinTypMaxExpression"
                     ELSE "parseExpression", NoArgs, s, 3, v)
    [] pc = 1 ->
         LET en == expect(s, "CloseParenthesis")
         IN Ret(Node("NamedArgument", <<v.dot, v.name, v.open, en.t>>, <<r>>), en.s)
    [] pc = 2 -> Ret(Node("ClockingEventArgument", <<>>, <<r>>), s)
    [] pc = 3 -> Ret(Node("OrderedArgument", <<>>, <<r>>), s)

parsePattern(v, pc, r, s) ==
  CASE pc = 0 ->
         LET k == peekKind(s) IN
         IF k = "DotStar" THEN
           LET t == consume(s) IN Ret(Node("WildcardPattern", <<t.t>>, <<>>), t.s)
         ELSE IF k = "Dot" THEN
           LET dot == consume(s)
               name == expect(dot.s, "Identifier")
           IN Ret(Node("VariablePattern", <<dot.t, name.t>>, <<>>), name.s)
         ELSE IF k = "TaggedKeyword" THEN
           LET tagged == consume(s)
               name == expect(tagged.s, "Identifier")
           IN Ret(Node("TaggedPattern", <<tagged.t, name.t>>, <<NullNode>>), name.s)
         ELSE CallTo("parseSubExpression", [options |-> {"PatternContext"}, precedence |-> 0],
                     s, 1, v)
    [] pc = 1 -> Ret(Node("ExpressionPattern", <<>>, <<r>>), s)

\* lines 835-847, with the optional matches clause parsed
conditionalPredicateRest(v, matchesClause, s) ==
  LET buffer == <<conditionalPattern(v.first, matchesClause)>> IN
  IF peekIs(s, "TripleAnd") THEN
    LET ta == consume(s)
    IN CallTo("parseList",
              ListArgs("None", Append(buffer, TokenNode(ta.t)),
                       "isPossibleExpressionOrTripleAnd", "isEndOfConditionalPredicate",
                       v.endKind, "TripleAnd", TRUE, "ExpectedConditionalPattern",
                       Item("parseConditionalPattern", NoArgs), FALSE),
              ta.s, 2, v)
  ELSE
    LET e == expect(s, v.endKind)
    IN Ret([n |-> conditionalPredicate(buffer), end |-> e.t], e.s)

\* returns [n, end]: the predicate and the token that ended it
parseConditionalPredicate(v, pc, r, s) ==
  CASE pc = 0 ->
         IF peekIs(s, "MatchesKeyword") THEN
           LET matches == consume(s)
           IN CallTo("parsePattern", NoArgs, matches.s, 1, Bind(v, [matches |-> matches.t]))
         ELSE conditionalPredicateRest(v, NullNode, s)
    [] pc = 1 -> conditionalPredicateRest(v, Node("MatchesClause", <<v.matches>>, <<r>>), s)
    [] pc = 2 -> Ret([n |-> conditionalPredicate(r.buf), end |-> r.close], s)

parseConditionalPattern(v, pc, r, s) ==
  CASE pc = 0 ->
         CallTo("parseSubExpression", [options |-> {"PatternContext"}, precedence |-> 0],
                s, 1, v)
    [] pc = 1 ->
         IF peekIs(s, "MatchesKeyword") THEN
           LET matches == consume(s)
           IN CallTo("parsePattern", NoArgs, matches.s, 2,
                     Bind(v, [expr |-> r, matches |-> matches.t]))
         ELSE Ret(conditionalPattern(r, NullNode), s)
    [] pc = 2 ->
         Ret(conditionalPattern(v.expr, Node("MatchesClause", <<v.matches>>, <<r>>)), s)

\* ---------------------------------------------------------------- events, new, timing
binaryEventExpression(left, op, right) ==
  Node("BinaryEventExpression", <<op>>, <<left, right>>)

\* a variant in which only `or` joins event terms
eventTailOrOnly(v, left, s) ==
  IF peekKind(s) = "OrKeyword" THEN
    LET op == consume(s)
    IN CallTo("parseEventExpression", NoArgs, op.s, 4, Bind(v, [left |-> left, op |-> op.t]))
  ELSE Ret(left, s)

\* the `or` / `,` tail of an event expression
eventTail(v, left, s) ==
  IF peekKind(s) \in {"Comma", "OrKeyword"} THEN
    LET op == consume(s)
    IN CallTo("parseEventExpression", NoArgs, op.s, 4, Bind(v, [left |-> left, op |-> op.t]))
  ELSE Ret(left, s)

parseEventExpression(v, pc, r, s) ==
  CASE pc = 0 ->
         IF peekIs(s, "OpenParenthesis") THEN
           LET openParen == consume(s)
           IN CallTo("parseEventExpression", NoArgs, openParen.s, 1,
                     Bind(v, [openParen |-> openParen.t]))
         ELSE
           LET edge == parseEdgeKeyword(s)
           IN CallTo("parseExpression", NoArgs, edge.s, 2, Bind(v, [edge |-> edge.t]))
    [] pc = 1 ->
         LET closeParen == expect(s, "CloseParenthesis")
         IN eventTail(v, Node("ParenthesizedEventExpression", <<v.openParen, closeParen.t>>,
                              <<r>>), closeParen.s)
    [] pc = 2 ->
         IF peekIs(s, "IffKeyword") THEN
           LET iff == consume(s)
           IN CallTo("parseExpression", NoArgs, iff.s, 3, Bind(v, [expr |-> r, iff |-> iff.t]))
         ELSE eventTail(v, Node("SignalEventExpression", <<v.edge>>, <<r, NullNode>>), s)
    [] pc = 3 ->
         eventTail(v, Node("SignalEventExpression", <<v.edge>>,
                           <<v.expr, Node("IffEventClause", <<v.iff>>, <<r>>)>>), s)
    [] pc = 4 -> Ret(binaryEventExpression(v.left, v.op, r), s)

RECURSIVE getLastTokenKind(_)
getLastTokenKind(name) ==
  IF name.kind = "ScopedName" THEN getLastTokenKind(name.kids[2])
  ELSE IF name.kind = "IdentifierSelectName" THEN "CloseBracket"
  ELSE IF name.kind = "ClassName" THEN "CloseParenthesis"
  ELSE name.toks[1].kind

parseNewExpression(v, pc, r, s) ==
  CASE pc = 0 ->
         LET kind == peekKind(s)
             newKeyword == v.newKeyword
             superNew == /\ newKeyword.kind = "ScopedName"
                         /\ newKeyword.kids[2].kind = "ConstructorName"
                         /\ getLastTokenKind(newKeyword.kids[1]) = "SuperKeyword"
                         /\ "AllowSuperNewCall" \notin v.options
             s1 == IF superNew THEN addDiag(s, "InvalidSuperNew", newKeyword.kids[2].toks[1].at)
                   ELSE s
         IN IF kind = "OpenBracket" THEN
              LET openBracket == consume(s)
              IN CallTo("parseExpression", NoArgs, openBracket.s, 1,
                        Bind(v, [openBracket |-> openBracket.t]))
            ELSE IF kind = "OpenParenthesis" THEN
              CallTo("parseArgumentList", [isParamAssignment |-> FALSE, allowClocking |-> FALSE],
                     s1, 4, v)
            ELSE IF isPossibleExpression(kind) THEN
              LET s2 == IF newKeyword.kind # "ConstructorName"
                          THEN addDiag(s1, "ScopedClassCopy", location(s1)) ELSE s1
              IN CallTo("parseExpression", NoArgs, s2, 5, v)
            ELSE Ret(Node("NewClassExpression", <<>>, <<newKeyword, NullNode>>), s1)
    [] pc = 1 ->
         LET closeBracket == expect(s, "CloseBracket") IN
         IF peekIs(closeBracket.s, "OpenParenthesis") THEN
           LET openParen == consume(closeBracket.s)
           IN CallTo("parseExpression", NoArgs, openParen.s, 2,
                     Bind(v, [sizeExpr |-> r, closeBracket |-> closeBracket.t,
                              openParen |-> openParen.t]))
         ELSE Ret(Node("NewArrayExpression", <<v.openBracket, closeBracket.t>>,
                       <<v.newKeyword, r, NullNode>>), closeBracket.s)
    [] pc = 2 ->
         LET closeParen == expect(s, "CloseParenthesis")
         IN Ret(Node("NewArrayExpression", <<v.openBracket, v.closeBracket>>,
                     <<v.newKeyword, v.sizeExpr,
                       parenthesizedExpression(v.openParen, r, closeParen.t)>>), closeParen.s)
    [] pc = 4 -> Ret(Node("NewClassExpression", <<>>, <<v.newKeyword, r>>), s)
    [] pc = 5 -> Ret(Node("CopyClassExpression", <<>>, <<v.newKeyword, r>>), s)

parseTimingControl(v, pc, r, s) ==
  CASE pc = 0 ->
         LET k == peekKind(s) IN
         IF k \in {"Hash", "DoubleHash"} THEN
           LET hash == consume(s)
           IN CallTo("parsePrimaryExpression", [options |-> {"DisallowVectors"}], hash.s, 1,
                     Bind(v, [hash |-> hash.t]))
         ELSE IF k = "At" THEN
           LET at == consume(s)
               k2 == peekKind(at.s)
           IN IF k2 = "OpenParenthesis" THEN
                LET openParen == consume(at.s) IN
                IF peekIs(openParen.s, "Star") THEN
                  LET star == consume(openParen.s)
                      closeParen == expect(star.s, "CloseParenthesis")
                  IN Ret(Node("ImplicitEventControl",
                              <<at.t, openParen.t, star.t, closeParen.t>>, <<>>), closeParen.s)
                ELSE CallTo("parseEventExpression", NoArgs, openParen.s, 2,
                            Bind(v, [at |-> at.t, openParen |-> openParen.t]))
              ELSE IF k2 = "OpenParenthesisStar" THEN
                LET openParen == consume(at.s)
                    closeParen == expect(openParen.s, "CloseParenthesis")
                IN Ret(Node("ImplicitEventControl",
                            <<at.t, openParen.t, EmptyToken, closeParen.t>>, <<>>), closeParen.s)
              ELSE IF k2 = "Star" THEN
                LET star == consume(at.s)
                IN Ret(Node("ImplicitEventControl", <<at.t, EmptyToken, star.t, EmptyToken>>,
                            <<>>), star.s)
              ELSE CallTo("parseName", [options |-> {}], at.s, 3, Bind(v, [at |-> at.t]))
         ELSE IF k = "RepeatKeyword" THEN
           LET repeat == consume(s)
               openParen == expect(repeat.s, "OpenParenthesis")
           IN CallTo("parseExpression", NoArgs, openParen.s, 4,
                     Bind(v, [repeat |-> repeat.t, openParen |-> openParen.t]))
         ELSE Ret(NullNode, s)
    [] pc = 1 ->
         Ret(Node(IF v.hash.kind = "Hash" THEN "DelayControl" ELSE "CycleDelay",
                  <<v.hash>>, <<r>>), s)
    [] pc = 2 ->
         LET closeParen == expect(s, "CloseParenthesis")
         IN Ret(Node("EventControlWithExpression", <<v.at>>,
                     <<Node("ParenthesizedEventExpression", <<v.openParen, closeParen.t>>,
                            <<r>>)>>), closeParen.s)
    [] pc = 3 -> Ret(Node("EventControl", <<v.at>>, <<r>>), s)
    [] pc = 4 ->
         LET closeParen == expect(s, "CloseParenthesis")
         IN CallTo("parseTimingControl", NoArgs, closeParen.s, 5,
                   Bind(v, [expr |-> r, closeParen |-> closeParen.t]))
    [] pc = 5 ->
         Ret(Node("RepeatedEventControl", <<v.repeat, v.openParen, v.closeParen>>,
                  <<v.expr, r>>), s)

\* the constraint block that may end an array or randomize method
arrayMethodRest(v, with, args, s) ==
  LET constraints == IF peekIs(s, "OpenBrace") THEN parseConstraintBlock(s)
                     ELSE R(NullNode, s)
  IN Ret(Node("ArrayOrRandomizeMethodExpression", <<with>>, <<v.expr, args, constraints.n>>),
         constraints.s)

parseArrayOrRandomizeMethod(v, pc, r, s) ==
  CASE pc = 0 ->
         LET with == consume(s) IN
         IF peekIs(with.s, "OpenParenthesis") THEN
           CallTo("parseList",
                  ListArgs("OpenParenthesis", <<>>, "isPossibleExpressionOrComma",
                           "isEndOfParenList", "CloseParenthesis", "Comma", FALSE,
                           "ExpectedExpression", Item("parseExpression", NoArgs), FALSE),
                  with.s, 1, Bind(v, [with |-> with.t]))
         ELSE arrayMethodRest(v, with.t, NullNode, with.s)
    [] pc = 1 ->
         arrayMethodRest(v, v.with, Node("ParenExpressionList", <<r.open, r.close>>, r.buf), s)

\* ---------------------------------------------------------------- sequences
\* the head of one pass of the do-while loop of parseDelayedSequenceExpr, lines 1056-1075
delayedHead(v, s) ==
  LET hash == expect(s, "DoubleHash")
      s1 == hash.s
      v1 == Bind(v, [start |-> s.pos, hash |-> hash.t, delayVal |-> NullNode,
                     openBracket |-> EmptyToken, op |-> EmptyToken, selector |-> NullNode,
                     closeBracket |-> EmptyToken])
  IN IF peekIs(s1, "OpenBracket") THEN
       LET openBracket == consume(s1)
           s2 == openBracket.s
       IN IF (peekIs(s2, "Star") \/ peekIs(s2, "Plus")) /\ peekKindAt(s2, 1) = "CloseBracket"
            THEN LET op == consume(s2)
                     closeBracket == expect(op.s, "CloseBracket")
                 IN CallTo("parseSequencePrimary", NoArgs, closeBracket.s, 3,
                           Bind(v1, [openBracket |-> openBracket.t, op |-> op.t,
                                     closeBracket |-> closeBracket.t]))
            ELSE CallTo("parseElementSelector", NoArgs, s2, 1,
                        Bind(v1, [openBracket |-> openBracket.t]))
     ELSE CallTo("parsePrimaryExpression", [options |-> {}], s1, 2, v1)

parseDelayedSequenceExpr(v, pc, r, s) ==
  CASE pc = 0 -> delayedHead(Bind(v, [elements |-> <<>>]), s)
    [] pc = 1 ->
         LET closeBracket == expect(s, "CloseBracket")
         IN CallTo("parseSequencePrimary", NoArgs, closeBracket.s, 3,
                   Bind(v, [selector |-> r, closeBracket |-> closeBracket.t]))
    [] pc = 2 -> CallTo("parseSequencePrimary", NoArgs, s, 3, Bind(v, [delayVal |-> r]))
    [] pc = 3 ->
         LET element == delayedSequenceElement(v.hash, v.delayVal, v.openBracket, v.op,
                                               v.selector, v.closeBracket, r)
             elements == Append(v.elements, element)
         IN IF ~peekIs(s, "DoubleHash") THEN Ret(delayedSequenceExpr(v.first, elements), s)
            ELSE IF s.pos <= v.start
              THEN Ret(delayedSequenceExpr(v.first, elements), MarkStuck(s))
            ELSE delayedHead(Bind(v, [elements |-> elements]), s)

\* args: source, openParen
fixParenthesizedExpression(v, pc, r, s) ==
  CASE pc = 0 ->
         LET closeParen == expect(s, "CloseParenthesis")
             paren == parenthesizedExpression(v.openParen, v.source.kids[1], closeParen.t)
         IN CallTo("parsePostfixExpression", [lhs |-> paren, options |-> {"SequenceExpr"}],
                   closeParen.s, 1, v)
    [] pc = 1 ->
         CallTo("parseBinaryExpression",
                [left |-> r, options |-> {"SequenceExpr"}, precedence |-> 0], s, 2, v)
    [] pc = 2 ->
         IF ~peekIs(s, "DistKeyword") THEN Ret(r, s)
         ELSE CallTo("parseDistConstraintList", NoArgs, s, 3, Bind(v, [binary |-> r]))
    [] pc = 3 -> Ret(Node("ExpressionOrDist", <<>>, <<v.binary, r>>), s)

\* returns [n, close]
parseSequenceMatchList(v, pc, r, s) ==
  CASE pc = 0 ->
         IF ~peekIs(s, "Comma") THEN
           LET closeParen == expect(s, "CloseParenthesis")
           IN Ret([n |-> NullNode, close |-> closeParen.t], closeParen.s)
         ELSE
           CallTo("parseList",
                  ListArgs("Comma", <<>>, "isPossibleExpressionOrComma", "isEndOfParenList",
                           "CloseParenthesis", "Comma", TRUE, "ExpectedExpression",
                           Item("parseExpression", NoArgs), FALSE), s, 1, v)
    [] pc = 1 ->
         Ret([n |-> Node("SequenceMatchList", <<r.open>>, r.buf), close |-> r.close], s)

parseSequenceRepetition(v, pc, r, s) ==
  CASE pc = 0 ->
         IF ~peekIs(s, "OpenBracket") THEN Ret(NullNode, s)
         ELSE
           LET openBracket == consume(s)
               op == IF peekKind(openBracket.s) \in {"Plus", "Equals", "MinusArrow"}
                       THEN consume(openBracket.s) ELSE expect(openBracket.s, "Star")
           IN CallTo("parseElementSelector", NoArgs, op.s, 1,
                     Bind(v, [openBracket |-> openBracket.t, op |-> op.t]))
    [] pc = 1 ->
         LET closeBracket == expect(s, "CloseBracket")
         IN Ret(Node("SequenceRepetition", <<v.openBracket, v.op, closeBracket.t>>, <<r>>),
                closeBracket.s)

parseSequencePrimary(v, pc, r, s) ==
  CASE pc = 0 ->
         LET k == peekKind(s) IN
         IF k = "DoubleHash" THEN
           CallTo("parseDelayedSequenceExpr", [first |-> NullNode], s, ReturnCallee, v)
         ELSE IF k = "At" THEN CallTo("parseTimingControl", NoArgs, s, 1, v)
         ELSE IF k = "FirstMatchKeyword" THEN
           LET keyword == consume(s)
               openParen == consume(keyword.s)
           IN CallTo("parseSequenceExpr", [precedence |-> 0, isInProperty |-> FALSE],
                     openParen.s, 3,
                     Bind(v, [keyword |-> keyword.t, openParen |-> openParen.t]))
         ELSE IF k = "OpenParenthesis" THEN
           LET openParen == consume(s)
           IN CallTo("parseSequenceExpr", [precedence |-> 0, isInProperty |-> FALSE],
                     openParen.s, 5, Bind(v, [openParen |-> openParen.t]))
         ELSE CallTo("parseExpressionOrDist", [options |-> {"SequenceExpr"}], s, 9, v)
    [] pc = 1 ->
         CallTo("parseSequenceExpr", [precedence |-> 0, isInProperty |-> FALSE], s, 2,
                Bind(v, [event |-> r]))
    [] pc = 2 -> Ret(Node("ClockingSequenceExpr", <<>>, <<v.event, r>>), s)
    [] pc = 3 -> CallTo("parseSequenceMatchList", NoArgs, s, 4, Bind(v, [expr |-> r]))
    [] pc = 4 ->
         Ret(Node("FirstMatchSequenceExpr", <<v.keyword, v.openParen, r.close>>,
                  <<v.expr, r.n>>), s)
    [] pc = 5 ->
         IF r.kind = "SimpleSequenceExpr" /\ peekIs(s, "CloseParenthesis") /\
            isBinaryOrPostfixExpression(peekKindAt(s, 1))
           THEN CallTo("fixParenthesizedExpression", [source |-> r, openParen |-> v.openParen],
                       s, 6, v)
           ELSE CallTo("parseSequenceMatchList", NoArgs, s, 7, Bind(v, [expr |-> r]))
    [] pc = 6 -> CallTo("parseSequenceRepetition", NoArgs, s, 10, Bind(v, [expr |-> r]))
    [] pc = 7 -> CallTo("parseSequenceRepetition", NoArgs, s, 8, Bind(v, [matchList |-> r]))
    [] pc = 8 ->
         Ret(parenthesizedSequenceExpr(v.openParen, v.expr, v.matchList.n, v.matchList.close, r),
             s)
    [] pc = 9 -> CallTo("parseSequenceRepetition", NoArgs, s, 10, Bind(v, [expr |-> r]))
    [] pc = 10 -> Ret(simpleSequenceExpr(v.expr, r), s)

\* lines 1230-1235: the operator belongs to this level and not to the parent's
takeSequenceOperator(newPrecedence, precedence, opKind) ==
  /\ ~(newPrecedence < precedence)
  /\ ~(newPrecedence = precedence /\ ~isRightAssociative(opKind))

\* a variant of the loop pass that leaves the operator token in the stream
sequenceClimbInPlace(v, s) ==
  LET opKind == getBinarySequenceExpr(peekKind(s))
      newPrecedence == getPrecedence(opKind)
  IN IF opKind = "Unknown" THEN Ret(v.left, releaseDepthGuard(s))
     ELSE IF ~takeSequenceOperator(newPrecedence, v.precedence, opKind)
       THEN Ret(v.left, releaseDepthGuard(s))
     ELSE
       CallTo("parseSequenceExpr",
              [precedence |-> newPrecedence, isInProperty |-> v.isInProperty], s, 3,
              Bind(v, [start |-> s.pos, opKind |-> opKind, opToken |-> Token(peekKind(s), s.pos)]))

\* one pass of the while loop of parseSequenceExpr, lines 1215-1241
sequenceClimb(v, s) ==
  LET opKind == getBinarySequenceExpr(peekKind(s))
      newPrecedence == getPrecedence(opKind)
  IN IF opKind = "Unknown" THEN Ret(v.left, releaseDepthGuard(s))
     ELSE IF v.isInProperty /\ opKind \in {"AndSequenceExpr", "OrSequenceExpr"}
       THEN Ret(v.left, releaseDepthGuard(s))
     ELSE IF ~takeSequenceOperator(newPrecedence, v.precedence, opKind)
       THEN Ret(v.left, releaseDepthGuard(s))
     ELSE
       LET opToken == consume(s)
       IN CallTo("parseSequenceExpr",
                 [precedence |-> newPrecedence, isInProperty |-> v.isInProperty], opToken.s, 3,
                 Bind(v, [start |-> s.pos, opKind |-> opKind, opToken |-> opToken.t]))

parseSequenceExpr(v, pc, r, s) ==
  CASE pc = 0 ->
         IF depthExceeded(s) THEN Ret(ErrorNode(location(s)), tooDeep(s))
         ELSE CallTo("parseSequencePrimary", NoArgs, setDepthGuard(s), 1, v)
    [] pc = 1 ->
         IF peekIs(s, "DoubleHash")
           THEN CallTo("parseDelayedSequenceExpr", [first |-> r], s, 2, v)
           ELSE sequenceClimb(Bind(v, [left |-> r]), s)
    [] pc = 2 -> sequenceClimb(Bind(v, [left |-> r]), s)
    [] pc = 3 ->
         LET left == binarySequenceExpr(v.opKind, v.left, v.opToken, r)
         IN IF s.pos <= v.start THEN Ret(left, releaseDepthGuard(MarkStuck(s)))
            ELSE sequenceClimb(Bind(v, [left |-> left]), s)

\* ---------------------------------------------------------------- properties
\* the end of parseCasePropertyExpr, lines 1290-1295
caseEnd(v, s) ==
  LET s1 == IF v.itemBuffer = <<>> THEN addDiag(s, "CaseStatementEmpty", v.keyword.at) ELSE s
      endcase == expect(s1, "EndCaseKeyword")
  IN Ret(Node("CasePropertyExpr", <<v.keyword, v.openParen, v.closeParen, endcase.t>>,
              <<v.condition, ListNode(v.itemBuffer)>>), endcase.s)

\* a variant that reports every default after the first
caseLoopReportingEach(v, s) ==
  LET kind == peekKind(s) IN
  IF kind = "DefaultKeyword" THEN
    LET report == v.lastDefault # 0
        s1 == IF report
                THEN addDiag(addDiag(s, "MultipleDefaultCases", location(s)),
                             "NotePreviousDefinition", v.lastDefault)
                ELSE s
        def == consume(s1)
        colon == consumeIf(def.s, "Colon")
    IN CallTo("parsePropertyExpr", [precedence |-> 0], colon.s, 2,
              Bind(v, [start |-> s.pos, errored |-> v.errored \/ report,
                       lastDefault |-> location(s), def |-> def.t, colon |-> colon.t]))
  ELSE IF isPossibleExpression(kind) THEN
    CallTo("parseList",
           ListArgs("None", <<>>, "isPossibleExpressionOrComma", "isEndOfCaseItem", "Colon",
                    "Comma", TRUE, "ExpectedExpression",
                    Item("parseExpressionOrDist", [options |-> {}]), FALSE),
           s, 3, Bind(v, [start |-> s.pos]))
  ELSE caseEnd(v, s)

\* one pass of the while loop of parseCasePropertyExpr, lines 1256-1288;
\* lastDefault = 0 is the unset location
caseLoop(v, s) ==
  LET kind == peekKind(s) IN
  IF kind = "DefaultKeyword" THEN
    LET report == v.lastDefault # 0 /\ ~v.errored
        s1 == IF report
                THEN addDiag(addDiag(s, "MultipleDefaultCases", location(s)),
                             "NotePreviousDefinition", v.lastDefault)
                ELSE s
        def == consume(s1)
        colon == consumeIf(def.s, "Colon")
    IN CallTo("parsePropertyExpr", [precedence |-> 0], colon.s, 2,
              Bind(v, [start |-> s.pos, errored |-> v.errored \/ report,
                       lastDefault |-> location(s), def |-> def.t, colon |-> colon.t]))
  ELSE IF isPossibleExpression(kind) THEN
    CallTo("parseList",
           ListArgs("None", <<>>, "isPossibleExpressionOrComma", "isEndOfCaseItem", "Colon",
                    "Comma", TRUE, "ExpectedExpression",
                    Item("parseExpressionOrDist", [options |-> {}]), FALSE),
           s, 3, Bind(v, [start |-> s.pos]))
  ELSE caseEnd(v, s)

\* an item was appended: the loop goes round again
caseAgain(v, item, s) ==
  LET v1 == Bind(v, [itemBuffer |-> Append(v.itemBuffer, item)])
  IN IF s.pos <= v.start
       THEN LET e == caseEnd(v1, s) IN Ret(e.r, MarkStuck(e.s))
       ELSE caseLoop(v1, s)

parseCasePropertyExpr(v, pc, r, s) ==
  CASE pc = 0 ->
         LET keyword == consume(s)
             openParen == expect(keyword.s, "OpenParenthesis")
         IN CallTo("parseExpressionOrDist", [options |-> {}], openParen.s, 1,
                   Bind(v, [keyword |-> keyword.t, openParen |-> openParen.t]))
    [] pc = 1 ->
         LET closeParen == expect(s, "CloseParenthesis")
         IN caseLoop(Bind(v, [condition |-> r, closeParen |-> closeParen.t,
                              itemBuffer |-> <<>>, lastDefault |-> 0, errored |-> FALSE]),
                     closeParen.s)
    [] pc = 2 ->
         LET semi == expect(s, "Semicolon")
         IN caseAgain(v, Node("DefaultPropertyCaseItem", <<v.def, v.colon, semi.t>>, <<r>>),
                      semi.s)
    [] pc = 3 ->
         CallTo("parsePropertyExpr", [precedence |-> 0], s, 4,
                Bind(v, [buffer |-> r.buf, colon |-> r.close]))
    [] pc = 4 ->
         LET semi == expect(s, "Semicolon")
         IN caseAgain(v, Node("StandardPropertyCaseItem", <<v.colon, semi.t>>,
                              <<ListNode(v.buffer), r>>), semi.s)

unaryPropertyExpr(op, expr) == Node("UnaryPropertyExpr", <<op>>, <<expr>>)

\* a variant that never reads a bracket as bounds
boundsNeverFollow(s) == FALSE

\* lines 1361 and 1376: the operator is followed by its bounds
boundsFollow(s) == peekIs(s, "OpenBracket")

\* a variant that gives the operator a full property expression
primaryOperandAsExpr(s, pc, v) == CallTo("parsePropertyExpr", [precedence |-> 0], s, pc, v)

\* lines 1355, 1365 and 1369: the operand of not, nexttime and s_nexttime is one primary
primaryOperand(s, pc, v) == CallTo("parsePropertyPrimary", NoArgs, s, pc, v)

parsePropertyPrimary(v, pc, r, s) ==
  CASE pc = 0 ->
         LET k == peekKind(s) IN
         IF k = "At" THEN CallTo("parseTimingControl", NoArgs, s, 1, v)
         ELSE IF k = "OpenParenthesis" THEN
           LET openParen == consume(s)
           IN CallTo("parsePropertyExpr", [precedence |-> 0], openParen.s, 3,
                     Bind(v, [openParen |-> openParen.t]))
         ELSE IF k \in {"StrongKeyword", "WeakKeyword"} THEN
           LET keyword == consume(s)
               openParen == consume(keyword.s)
           IN CallTo("parseSequenceExpr", [precedence |-> 0, isInProperty |-> FALSE],
                     openParen.s, 7,
                     Bind(v, [keyword |-> keyword.t, openParen |-> openParen.t]))
         ELSE IF k = "NotKeyword" THEN
           LET op == consume(s)
           IN primaryOperand(op.s, 8, Bind(v, [op |-> op.t]))
         ELSE IF k \in {"NextTimeKeyword", "SNextTimeKeyword"} THEN
           LET op == consume(s) IN
           IF boundsFollow(op.s) THEN
             LET openBracket == consume(op.s)
             IN CallTo("parseElementSelector", NoArgs, openBracket.s, 9,
                       Bind(v, [op |-> op.t, openBracket |-> openBracket.t,
                                primaryOnly |-> TRUE]))
           ELSE primaryOperand(op.s, 8, Bind(v, [op |-> op.t]))
         ELSE IF k \in {"AlwaysKeyword", "SAlwaysKeyword", "EventuallyKeyword",
                        "SEventuallyKeyword"} THEN
           LET op == consume(s) IN
           IF boundsFollow(op.s) THEN
             LET openBracket == consume(op.s)
             IN CallTo("parseElementSelector", NoArgs, openBracket.s, 9,
                       Bind(v, [op |-> op.t, openBracket |-> openBracket.t,
                                primaryOnly |-> FALSE]))
           ELSE CallTo("parsePropertyExpr", [precedence |-> 0], op.s, 8, Bind(v, [op |-> op.t]))
         ELSE IF k \in {"AcceptOnKeyword", "RejectOnKeyword", "SyncAcceptOnKeyword",
                        "SyncRejectOnKeyword"} THEN
           LET keyword == consume(s)
               openParen == consume(keyword.s)
           IN CallTo("parseExpressionOrDist", [options |-> {}], openParen.s, 11,
                     Bind(v, [keyword |-> keyword.t, openParen |-> openParen.t]))
         ELSE IF k = "IfKeyword" THEN
           LET keyword == consume(s)
               openParen == consume(keyword.s)
           IN CallTo("parseExpressionOrDist", [options |-> {}], openParen.s, 13,
                     Bind(v, [keyword |-> keyword.t, openParen |-> openParen.t]))
         ELSE IF k = "CaseKeyword" THEN
           CallTo("parseCasePropertyExpr", NoArgs, s, ReturnCallee, v)
         ELSE CallTo("parseSequenceExpr", [precedence |-> 0, isInProperty |-> TRUE], s, 16, v)
    [] pc = 1 -> CallTo("parsePropertyExpr", [precedence |-> 0], s, 2, Bind(v, [event |-> r]))
    [] pc = 2 -> Ret(Node("ClockingPropertyExpr", <<>>, <<v.event, r>>), s)
    [] pc = 3 ->
         IF /\ r.kind = "SimplePropertyExpr"
            /\ peekIs(s, "CloseParenthesis")
            /\ isBinaryOrPostfixExpression(peekKindAt(s, 1))
            /\ r.kids[1].kind = "SimpleSequenceExpr"
           THEN CallTo("fixParenthesizedExpression",
                       [source |-> r.kids[1], openParen |-> v.openParen], s, 4, v)
         ELSE IF /\ r.kind = "SimplePropertyExpr"
                 /\ \/ peekIs(s, "Comma")
                    \/ (peekIs(s, "CloseParenthesis") /\ peekKindAt(s, 1) = "OpenBracket")
           THEN CallTo("parseSequenceMatchList", NoArgs, s, 5, Bind(v, [seqExpr |-> r.kids[1]]))
         ELSE LET closeParen == expect(s, "CloseParenthesis")
              IN Ret(Node("ParenthesizedPropertyExpr", <<v.openParen, closeParen.t>>, <<r>>),
                     closeParen.s)
    [] pc = 4 -> Ret(simplePropertyExpr(simpleSequenceExpr(r, NullNode)), s)
    [] pc = 5 -> CallTo("parseSequenceRepetition", NoArgs, s, 6, Bind(v, [matchList |-> r]))
    [] pc = 6 ->
         Ret(simplePropertyExpr(
               parenthesizedSequenceExpr(v.openParen, v.seqExpr, v.matchList.n,
                                         v.matchList.close, r)), s)
    [] pc = 7 ->
         LET closeParen == expect(s, "CloseParenthesis")
         IN Ret(Node("StrongWeakPropertyExpr", <<v.keyword, v.openParen, closeParen.t>>, <<r>>),
                closeParen.s)
    [] pc = 8 -> Ret(unaryPropertyExpr(v.op, r), s)
    [] pc = 9 ->
         LET closeBracket == expect(s, "CloseBracket")
             v1 == Bind(v, [selector |-> r, closeBracket |-> closeBracket.t])
         IN IF v.primaryOnly
              THEN primaryOperand(closeBracket.s, 10, v1)
              ELSE CallTo("parsePropertyExpr", [precedence |-> 0], closeBracket.s, 10, v1)
    [] pc = 10 ->
         Ret(Node("UnarySelectPropertyExpr", <<v.op, v.openBracket, v.closeBracket>>,
                  <<v.selector, r>>), s)
    [] pc = 11 ->
         LET closeParen == expect(s, "CloseParenthesis")
         IN CallTo("parsePropertyExpr", [precedence |-> 0], closeParen.s, 12,
                   Bind(v, [condition |-> r, closeParen |-> closeParen.t]))
    [] pc = 12 ->
         Ret(Node("AcceptOnPropertyExpr", <<v.keyword, v.openParen, v.closeParen>>,
                  <<v.condition, r>>), s)
    [] pc = 13 ->
         LET closeParen == expect(s, "CloseParenthesis")
         IN CallTo("parsePropertyExpr", [precedence |-> 0], closeParen.s, 14,
                   Bind(v, [condition |-> r, closeParen |-> closeParen.t]))
    [] pc = 14 ->
         IF peekIs(s, "ElseKeyword") THEN
           LET elseKeyword == consume(s)
           IN CallTo("parsePropertyExpr", [precedence |-> 0], elseKeyword.s, 15,
                     Bind(v, [expr |-> r, elseKeyword |-> elseKeyword.t]))
         ELSE Ret(Node("ConditionalPropertyExpr", <<v.keyword, v.openParen, v.closeParen>>,
                       <<v.condition, r, NullNode>>), s)
    [] pc = 15 ->
         Ret(Node("ConditionalPropertyExpr", <<v.keyword, v.openParen, v.closeParen>>,
                  <<v.condition, v.expr,
                    Node("ElsePropertyClause", <<v.elseKeyword>>, <<r>>)>>), s)
    [] pc = 16 -> Ret(simplePropertyExpr(r), s)

\* lines 1439-1444: the operator belongs to this level and not to the parent's
takePropertyOperator(newPrecedence, precedence, opKind) ==
  /\ ~(newPrecedence < precedence)
  /\ ~(newPrecedence = precedence /\ ~isRightAssociative(opKind))

\* one pass of the while loop of parsePropertyExpr, lines 1431-1450
propertyClimb(v, s) ==
  LET opKind == getBinaryPropertyExpr(peekKind(s))
      newPrecedence == getPrecedence(opKind)
  IN IF opKind = "Unknown" THEN Ret(v.left, releaseDepthGuard(s))
     ELSE IF ~takePropertyOperator(newPrecedence, v.precedence, opKind)
       THEN Ret(v.left, releaseDepthGuard(s))
     ELSE
       LET opToken == consume(s)
       IN CallTo("parsePropertyExpr", [precedence |-> newPrecedence], opToken.s, 2,
                 Bind(v, [start |-> s.pos, opKind |-> opKind, opToken |-> opToken.t]))

parsePropertyExpr(v, pc, r, s) ==
  CASE pc = 0 ->
         IF depthExceeded(s) THEN Ret(ErrorNode(location(s)), tooDeep(s))
         ELSE CallTo("parsePropertyPrimary", NoArgs, setDepthGuard(s), 1, v)
    [] pc = 1 -> propertyClimb(Bind(v, [left |-> r]), s)
    [] pc = 2 ->
         LET left == binaryPropertyExpr(v.opKind, v.left, v.opToken, r)
         IN IF s.pos <= v.start THEN Ret(left, releaseDepthGuard(MarkStuck(s)))
            ELSE propertyClimb(Bind(v, [left |-> left]), s)

\* ---------------------------------------------------------------- mir::MIRValue
\* the width of uintptr_t and size_t, in bits
WordBits == 6

RECURSIVE Pow2(_)
Pow2(n) == IF n = 0 THEN 1 ELSE 2 * Pow2(n - 1)

\* the values of a word
Words == 0..(Pow2(WordBits) - 1)

RECURSIVE BitOr(_, _)
BitOr(a, b) ==
  IF a = 0 THEN b
  ELSE IF b = 0 THEN a
  ELSE (IF a % 2 = 1 \/ b % 2 = 1 THEN 1 ELSE 0) + 2 * BitOr(a \div 2, b \div 2)

RECURSIVE BitAnd(_, _)
BitAnd(a, b) ==
  IF a = 0 \/ b = 0 THEN 0
  ELSE (IF a % 2 = 1 /\ b % 2 = 1 THEN 1 ELSE 0) + 2 * BitAnd(a \div 2, b \div 2)

\* x << n and x >> n on a word
ShiftLeft(x, n) == (x * Pow2(n)) % Pow2(WordBits)

ShiftRight(x, n) == x \div Pow2(n)

\* enum Kind { Empty, InstrSlot, Constant, Local, Global }
Empty == 0
InstrSlot == 1
Constant == 2
Local == 3
Global == 4

Kind == {Empty, InstrSlot, Constant, Local, Global}

\* MIRValue() : val(0)
MIRValueDefault == 0

\* MIRValue(const TypedConstantValue& cv): the address of cv with the kind in its low bits
MIRValueConstant(address) == BitOr(address, Constant)

\* a variant that keeps two bits for the kind
MIRValueNarrow(kind, index) == BitOr(ShiftLeft(index, 2), kind)

\* MIRValue(Kind kind, size_t index) : val((index << 3) | kind)
MIRValue(kind, index) == BitOr(ShiftLeft(index, 3), kind)

getKind(v) == BitAnd(v, 7)

\* the assertion of asIndex
asIndexAsserted(v) == getKind(v) # Constant

asIndex(v) == ShiftRight(v, 3)

\* the assertion of asConstant
asConstantAsserted(v) == getKind(v) = Constant

\* val & ~7ull
asConstant(v) == BitAnd(v, Pow2(WordBits) - 8)

\* explicit operator bool
asBool(v) == getKind(v) # Empty

\* the addresses a TypedConstantValue can have: not null, aligned to its reference member
Addresses == {a \in Words : a # 0 /\ a % 8 = 0}

\* how the value at hand was made: by which constructor and from which arguments
NotMade == [by |-> "none", kind |-> Empty, index |-> 0]

\* ---------------------------------------------------------------- the call stack
\* a frame: the rule, where it resumes, its locals, and the guard depth it was called at
Frame(rule, args, d) == [rule |-> rule, pc |-> 0, v |-> args, d |-> d]

\* the rule of frame f runs from f.pc, given the value r its callee returned
Run(f, r, s) ==
  IF f.pc = ReturnCallee THEN Ret(r, s)
  ELSE
  CASE f.rule = "parseExpression" -> parseExpression(f.v, f.pc, r, s)
    [] f.rule = "parseMinTypMaxExpression" -> parseMinTypMaxExpression(f.v, f.pc, r, s)
    [] f.rule = "parseExpressionOrDist" -> parseExpressionOrDist(f.v, f.pc, r, s)
    [] f.rule = "parseSubExpression" -> parseSubExpression(f.v, f.pc, r, s)
    [] f.rule = "parseBinaryExpression" -> parseBinaryExpression(f.v, f.pc, r, s)
    [] f.rule = "parsePrimaryExpression" -> parsePrimaryExpression(f.v, f.pc, r, s)
    [] f.rule = "parseInsideExpression" -> parseInsideExpression(f.v, f.pc, r, s)
    [] f.rule = "parseOpenRangeList" -> parseOpenRangeList(f.v, f.pc, r, s)
    [] f.rule = "parseOpenRangeElement" -> parseOpenRangeElement(f.v, f.pc, r, s)
    [] f.rule = "parseConcatenation" -> parseConcatenation(f.v, f.pc, r, s)
    [] f.rule = "parseStreamConcatenation" -> parseStreamConcatenation(f.v, f.pc, r, s)
    [] f.rule = "parseStreamExpression" -> parseStreamExpression(f.v, f.pc, r, s)
    [] f.rule = "parseAssignmentPatternExpression" ->
         parseAssignmentPatternExpression(f.v, f.pc, r, s)
    [] f.rule = "parseAssignmentPatternItem" -> parseAssignmentPatternItem(f.v, f.pc, r, s)
    [] f.rule = "parseElementSelect" -> parseElementSelect(f.v, f.pc, r, s)
    [] f.rule = "parseElementSelector" -> parseElementSelector(f.v, f.pc, r, s)
    [] f.rule = "parsePostfixExpression" -> parsePostfixExpression(f.v, f.pc, r, s)
    [] f.rule = "parseName" -> parseName(f.v, f.pc, r, s)
    [] f.rule = "parseNamePart" -> parseNamePart(f.v, f.pc, r, s)
    [] f.rule = "parseParameterValueAssignment" ->
         parseParameterValueAssignment(f.v, f.pc, r, s)
    [] f.rule = "parseArgumentList" -> parseArgumentList(f.v, f.pc, r, s)
    [] f.rule = "parseArgument" -> parseArgument(f.v, f.pc, r, s)
    [] f.rule = "parsePattern" -> parsePattern(f.v, f.pc, r, s)
    [] f.rule = "parseConditionalPredicate" -> parseConditionalPredicate(f.v, f.pc, r, s)
    [] f.rule = "parseConditionalPattern" -> parseConditionalPattern(f.v, f.pc, r, s)
    [] f.rule = "parseEventExpression" -> parseEventExpression(f.v, f.pc, r, s)
    [] f.rule = "parseNewExpression" -> parseNewExpression(f.v, f.pc, r, s)
    [] f.rule = "parseTimingControl" -> parseTimingControl(f.v, f.pc, r, s)
    [] f.rule = "parseArrayOrRandomizeMethod" -> parseArrayOrRandomizeMethod(f.v, f.pc, r, s)
    [] f.rule = "parseDelayedSequenceExpr" -> parseDelayedSequenceExpr(f.v, f.pc, r, s)
    [] f.rule = "fixParenthesizedExpression" -> fixParenthesizedExpression(f.v, f.pc, r, s)
    [] f.rule = "parseSequenceMatchList" -> parseSequenceMatchList(f.v, f.pc, r, s)
    [] f.rule = "parseSequenceRepetition" -> parseSequenceRepetition(f.v, f.pc, r, s)
    [] f.rule = "parseSequencePrimary" -> parseSequencePrimary(f.v, f.pc, r, s)
    [] f.rule = "parseSequenceExpr" -> parseSequenceExpr(f.v, f.pc, r, s)
    [] f.rule = "parseCasePropertyExpr" -> parseCasePropertyExpr(f.v, f.pc, r, s)
    [] f.rule = "parsePropertyPrimary" -> parsePropertyPrimary(f.v, f.pc, r, s)
    [] f.rule = "parsePropertyExpr" -> parsePropertyExpr(f.v, f.pc, r, s)
    [] f.rule = "parseDistConstraintList" -> parseDistConstraintList(f.v, f.pc, r, s)
    [] f.rule = "parseList" -> parseList(f.v, f.pc, r, s)

\* a rule is entered again while one of its invocations is active and no depth guard
\* has been acquired in between
unguardedReentry(stk, rule, depth) ==
  \E j \in 1..Len(stk) : stk[j].rule = rule /\ stk[j].d = depth

noteReentry(stk, rule, s) ==
  IF unguardedReentry(stk, rule, s.depth) THEN [s EXCEPT !.reent = @ \cup {rule}] ELSE s

\* ---------------------------------------------------------------- token streams
SeqsUpTo(A, n) == UNION {[1..k -> A] : k \in 0..n}

RECURSIVE Repeat(_, _)
Repeat(unit, k) == IF k = 0 THEN <<>> ELSE unit \o Repeat(unit, k - 1)

RECURSIVE Concat(_)
Concat(units) == IF units = <<>> THEN <<>> ELSE Head(units) \o Concat(Tail(units))

\* operand (operator operand)^k for k <= n
RECURSIVE Alternations(_, _, _)
Alternations(operands, operators, n) ==
  IF n = 0 THEN {<<a>> : a \in operands}
  ELSE LET shorter == Alternations(operands, operators, n - 1) IN
       shorter \cup {x \o <<o, a>> : x \in {y \in shorter : Len(y) = 2 * n - 1},
                                      o \in operators, a \in operands}

ShortAlphabet ==
  {"Identifier", "IntegerLiteral", "OpenParenthesis", "CloseParenthesis", "OpenBracket",
   "CloseBracket", "Dot", "DoubleColon", "Hash", "DoubleHash", "At", "Plus",
   "LessThanEquals", "Question", "Colon", "Comma", "NotKeyword", "OrKeyword"}

ValueOperators == {"Plus", "Star", "DoubleStar", "LessThanEquals", "MinusArrow", "Equals"}

SequenceOperators ==
  {"AndKeyword", "OrKeyword", "IntersectKeyword", "WithinKeyword", "ThroughoutKeyword"}

PropertyOperators ==
  {"AndKeyword", "OrKeyword", "IffKeyword", "UntilKeyword", "ImpliesKeyword", "OrMinusArrow"}

\* a op b (op c)*: the streams of the three precedence climbs
ValueStreams == Alternations({"Identifier"}, ValueOperators, MaxOps)

SequenceStreams == Alternations({"Identifier"}, SequenceOperators, MaxOps)

PropertyStreams == Alternations({"Identifier"}, PropertyOperators, MaxOps)

\* conditionals and `<=` at every position
FlagStreams ==
  Alternations({"Identifier"}, {"Question", "Colon", "LessThanEquals", "Plus"}, MaxOps + 1)

ConditionalStreams == Alternations({"Identifier"}, {"Question", "Colon"}, MaxOps + 2)

\* `a <= b` inside parentheses, brackets, braces and argument lists
Comparison == <<"Identifier", "LessThanEquals", "Identifier">>

EnclosedStreams ==
  {pre \o <<"OpenParenthesis">> \o Comparison \o <<"CloseParenthesis">> :
     pre \in {<<>>, <<"Identifier">>}}
    \cup {<<"Identifier", "OpenBracket">> \o Comparison \o <<"CloseBracket">>,
          <<"OpenBrace">> \o Comparison \o <<"CloseBrace">>}

\* ( inner ) rest
GroupInner ==
  {<<>>, <<"Identifier">>, <<"Identifier", "DoubleHash", "IntegerLiteral", "Identifier">>,
   <<"Identifier", "Plus", "Identifier">>, <<"DoubleHash", "IntegerLiteral", "Identifier">>,
   <<"Identifier", "OrKeyword", "Identifier">>,
   <<"Identifier", "OpenBracket", "Star", "IntegerLiteral", "CloseBracket">>}

Groups ==
  {<<"OpenParenthesis">> \o inner \o <<"CloseParenthesis">> \o rest :
     inner \in GroupInner,
     rest \in SeqsUpTo({"Identifier", "Plus", "OpenBracket"}, MaxGroup)}

\* an operand followed by postfix and name suffixes
Suffixes ==
  {<<"Dot", "Identifier">>, <<"DoubleColon", "Identifier">>,
   <<"OpenBracket", "Identifier", "CloseBracket">>,
   <<"OpenParenthesis", "CloseParenthesis">>, <<"OpenParenthesis">>, <<"DoublePlus">>}

PostfixStreams ==
  {<<"Identifier">> \o Concat(u) : u \in SeqsUpTo(Suffixes, MaxGroup)}

\* the same opening repeated, down to the depth guard's limit and one past it
Openings ==
  {<<"OpenParenthesis">>, <<"NotKeyword">>, <<"NextTimeKeyword">>,
   <<"DoubleHash", "IntegerLiteral">>, <<"AlwaysKeyword">>,
   <<"RepeatKeyword", "OpenParenthesis", "Identifier", "CloseParenthesis">>}

NestedStreams ==
  {pre \o Repeat(unit, k) \o <<"Identifier">> :
     pre \in {<<>>, <<"At">>}, unit \in Openings, k \in 1..(MaxRecursionDepth + 1)}

CaseDefault == <<"DefaultKeyword", "Colon", "Identifier", "Semicolon">>

\* case ( a ) item* [endcase]
CaseItems ==
  {<<"Identifier", "Colon", "Identifier", "Semicolon">>,
   <<"DefaultKeyword", "Colon", "Identifier", "Semicolon">>,
   <<"DefaultKeyword", "Identifier">>, <<"Identifier">>}

CaseStreams ==
  {pre \o <<"CaseKeyword", "OpenParenthesis", "Identifier", "CloseParenthesis">> \o
     Concat(items) \o tail :
     pre \in {<<>>, Repeat(<<"OpenParenthesis">>, MaxRecursionDepth - 1)},
     items \in SeqsUpTo(CaseItems, MaxGroup),
     tail \in {<<>>, <<"EndCaseKeyword">>}}
    \cup {<<"CaseKeyword", "OpenParenthesis", "Identifier", "CloseParenthesis">> \o
            Concat(<<CaseDefault, middle, CaseDefault, CaseDefault>>) \o <<"EndCaseKeyword">> :
            middle \in {<<>>, <<"Identifier", "Colon", "Identifier", "Semicolon">>}}

\* one stream for each of the remaining forms of the grammar
OtherStreams ==
  {<<"SystemIdentifier", "OpenParenthesis", "At", "Identifier", "CloseParenthesis">>,
   <<"Identifier", "OpenParenthesis", "At", "Identifier", "CloseParenthesis">>,
   <<"RepeatKeyword", "OpenParenthesis", "Identifier", "CloseParenthesis", "At", "Identifier",
     "Identifier">>,
   <<"Identifier", "InsideKeyword", "OpenBrace", "Identifier", "Comma", "OpenBracket",
     "Identifier", "Colon", "Identifier", "CloseBracket", "CloseBrace">>,
   <<"OpenBrace", "Identifier", "Comma", "Identifier", "CloseBrace">>,
   <<"OpenBrace", "CloseBrace">>,
   <<"OpenBrace", "IntegerLiteral", "OpenBrace", "Identifier", "CloseBrace", "CloseBrace">>,
   <<"OpenBrace", "LeftShift", "OpenBrace", "Identifier", "WithKeyword", "OpenBracket",
     "Identifier", "CloseBracket", "CloseBrace", "CloseBrace">>,
   <<"ApostropheOpenBrace", "Identifier", "Comma", "Identifier", "CloseBrace">>,
   <<"ApostropheOpenBrace", "Identifier", "Colon", "Identifier", "CloseBrace">>,
   <<"ApostropheOpenBrace", "IntegerLiteral", "OpenBrace", "Identifier", "CloseBrace",
     "CloseBrace">>,
   <<"IntKeyword", "ApostropheOpenBrace", "DefaultKeyword", "Colon", "Identifier",
     "CloseBrace">>,
   <<"SignedKeyword", "Apostrophe", "OpenParenthesis", "Identifier", "CloseParenthesis">>,
   <<"Identifier", "Apostrophe", "OpenParenthesis", "Identifier", "CloseParenthesis">>,
   <<"TaggedKeyword", "Identifier">>,
   <<"OpenParenthesis", "TaggedKeyword", "Identifier", "CloseParenthesis", "Plus",
     "OpenParenthesis", "Hash", "IntegerLiteral", "Identifier", "CloseParenthesis">>,
   <<"Identifier", "Plus", "OpenParenthesis", "NewKeyword", "OpenParenthesis", "Identifier",
     "CloseParenthesis", "CloseParenthesis">>,
   <<"NewKeyword">>,
   <<"NewKeyword", "OpenBracket", "Identifier", "CloseBracket", "OpenParenthesis",
     "Identifier", "CloseParenthesis">>,
   <<"NewKeyword", "OpenParenthesis", "Identifier", "CloseParenthesis">>,
   <<"NewKeyword", "Identifier">>,
   <<"SuperKeyword", "Dot", "NewKeyword", "OpenParenthesis", "CloseParenthesis">>,
   <<"ThisKeyword", "Dot", "SuperKeyword", "Dot", "Identifier">>,
   <<"Identifier", "Hash", "OpenParenthesis", "Identifier", "CloseParenthesis",
     "DoubleColon", "Identifier">>,
   <<"Identifier", "Dot", "UniqueKeyword", "WithKeyword", "OpenParenthesis", "Identifier",
     "CloseParenthesis">>,
   <<"Identifier", "WithKeyword", "OpenBrace", "CloseBrace">>,
   <<"Identifier", "OpenParenthesis", "Dot", "Identifier", "OpenParenthesis", "Identifier",
     "CloseParenthesis", "Comma", "Identifier", "CloseParenthesis">>,
   <<"Identifier", "OpenParenthesis", "Comma", "Identifier", "CloseParenthesis">>,
   <<"Identifier", "MatchesKeyword", "Identifier", "TripleAnd", "Identifier", "Question",
     "Identifier", "Colon", "Identifier">>,
   <<"Identifier", "OpenParenthesisStar", "Identifier", "StarCloseParenthesis",
     "OpenParenthesis", "CloseParenthesis">>,
   <<"Plus", "OpenParenthesisStar", "Identifier", "StarCloseParenthesis", "Identifier">>,
   <<"Exclamation", "Identifier", "DoublePlus">>,
   <<"IntegerLiteral", "IntegerBase", "IntegerLiteral">>,
   <<"Hash", "IntegerBase", "Identifier">>,
   <<"At", "OpenParenthesis", "PosEdgeKeyword", "Identifier", "IffKeyword", "Identifier",
     "OrKeyword", "Identifier", "CloseParenthesis", "Identifier">>,
   <<"At", "OpenParenthesis", "Star", "CloseParenthesis", "Identifier">>,
   <<"At", "OpenParenthesisStar", "CloseParenthesis", "Identifier">>,
   <<"At", "Star", "Identifier">>,
   <<"At", "Identifier", "Identifier">>,
   <<"Identifier", "DistKeyword", "OpenBrace", "Identifier", "CloseBrace">>,
   <<"Identifier", "OpenBracket", "Star", "IntegerLiteral", "CloseBracket">>,
   <<"Identifier", "OpenBracket", "Identifier", "Colon", "Identifier", "CloseBracket">>,
   <<"Identifier", "DoubleHash", "OpenBracket", "Star", "CloseBracket", "Identifier">>,
   <<"Identifier", "DoubleHash", "OpenBracket", "IntegerLiteral", "Colon", "Dollar",
     "CloseBracket", "Identifier">>,
   <<"FirstMatchKeyword", "OpenParenthesis", "Identifier", "Comma", "Identifier",
     "CloseParenthesis">>,
   <<"OpenParenthesis", "Identifier", "Comma", "Identifier", "CloseParenthesis",
     "OpenBracket", "Star", "IntegerLiteral", "CloseBracket">>,
   <<"Identifier", "IntersectKeyword", "At", "Star", "Identifier", "AndKeyword",
     "Identifier">>,
   <<"Identifier", "DoubleHash", "IntegerLiteral", "At", "Star", "Identifier", "OrKeyword",
     "Identifier">>,
   <<"DoubleHash", "IntegerLiteral", "Identifier", "AndKeyword", "Identifier">>,
   <<"Identifier", "DoubleHash", "IntegerLiteral", "Identifier", "OrKeyword", "Identifier">>,
   <<"At", "Star", "Identifier", "AndKeyword", "Identifier">>,
   <<"OpenParenthesis", "Identifier", "AndKeyword", "Identifier", "CloseParenthesis",
     "OrKeyword", "Identifier">>,
   <<"StrongKeyword", "OpenParenthesis", "Identifier", "CloseParenthesis">>,
   <<"AcceptOnKeyword", "OpenParenthesis", "Identifier", "CloseParenthesis", "Identifier">>,
   <<"IfKeyword", "OpenParenthesis", "Identifier", "CloseParenthesis", "Identifier",
     "ElseKeyword", "Identifier">>,
   <<"NextTimeKeyword", "OpenBracket", "IntegerLiteral", "CloseBracket", "Identifier">>,
   <<"AlwaysKeyword", "OpenBracket", "IntegerLiteral", "Colon", "IntegerLiteral",
     "CloseBracket", "Identifier">>,
   <<"Identifier", "OrMinusArrow", "NotKeyword", "Identifier", "UntilKeyword",
     "Identifier">>}

\* the unary property operators, with and without bounds
UnaryPropertyOperators ==
  {"NotKeyword", "NextTimeKeyword", "SNextTimeKeyword", "AlwaysKeyword", "SAlwaysKeyword",
   "EventuallyKeyword", "SEventuallyKeyword"}

UnaryStreams ==
  {<<op>> \o bounds \o operand :
     op \in UnaryPropertyOperators,
     bounds \in {<<>>, <<"OpenBracket", "IntegerLiteral", "CloseBracket">>,
                 <<"OpenBracket", "IntegerLiteral", "Colon", "IntegerLiteral",
                   "CloseBracket">>},
     operand \in {<<"Identifier">>, <<"Identifier", "AndKeyword", "Identifier">>,
                  <<"NotKeyword", "Identifier">>}}

\* parenthesized groups of a property: ( inner close after
SimpleInners ==
  {<<"Identifier">>, <<"Identifier", "Plus", "Identifier">>,
   <<"Identifier", "OpenBracket", "Star", "IntegerLiteral", "CloseBracket">>}

SequenceInners ==
  {<<"Identifier", "DoubleHash", "IntegerLiteral", "Identifier">>,
   <<"Identifier", "WithinKeyword", "Identifier">>}

PropertyInners ==
  {<<"NotKeyword", "Identifier">>, <<"Identifier", "ImpliesKeyword", "Identifier">>,
   <<"Identifier", "AndKeyword", "Identifier">>,
   <<"OpenParenthesis", "Identifier", "CloseParenthesis">>}

GroupAfter ==
  {<<>>, <<"Plus", "Identifier">>, <<"Dot", "Identifier">>,
   <<"Question", "Identifier", "Colon", "Identifier">>,
   <<"OpenBracket", "Star", "IntegerLiteral", "CloseBracket">>,
   <<"OpenBracket", "Identifier", "CloseBracket">>,
   <<"AndKeyword", "Identifier">>, <<"ImpliesKeyword", "Identifier">>,
   <<"Plus", "Identifier", "AndKeyword", "Identifier">>}

ParenStreams ==
  {<<"OpenParenthesis">> \o inner \o close \o after :
     inner \in SimpleInners \cup SequenceInners \cup PropertyInners,
     close \in {<<"CloseParenthesis">>, <<"Comma", "Identifier", "CloseParenthesis">>, <<>>},
     after \in GroupAfter}

\* the kinds the arbitrary short streams are made of
\* an operand followed by a bracket: repetition suffixes and element selects
RepetitionHeads ==
  {<<"Identifier">>, <<"IntegerLiteral">>,
   <<"Identifier", "OpenParenthesis", "CloseParenthesis">>}

RepetitionBodies ==
  {<<"Star", "IntegerLiteral">>, <<"Star">>, <<"Equals", "IntegerLiteral">>,
   <<"MinusArrow", "IntegerLiteral">>, <<"Plus">>, <<"Plus", "IntegerLiteral">>,
   <<"IntegerLiteral">>, <<"Identifier">>}

RepetitionStreams ==
  {head \o <<"OpenBracket">> \o body \o <<"CloseBracket">> :
     head \in RepetitionHeads, body \in RepetitionBodies}

\* a prefix property operator and an operand with binary property operators after it
ExtentPrefixes ==
  {<<op>> : op \in UnaryPropertyOperators}
    \cup {<<op, "OpenBracket", "IntegerLiteral", "CloseBracket">> :
            op \in UnaryPropertyOperators \ {"NotKeyword"}}
    \cup {<<keyword, "OpenParenthesis", "Identifier", "CloseParenthesis">> :
            keyword \in {"AcceptOnKeyword", "RejectOnKeyword", "SyncAcceptOnKeyword",
                         "SyncRejectOnKeyword", "IfKeyword"}}

ExtentOperands ==
  {<<"Identifier", "ImpliesKeyword", "Identifier">>,
   <<"Identifier", "OrKeyword", "Identifier">>,
   <<"Identifier", "UntilKeyword", "Identifier">>,
   <<"Identifier", "OrKeyword", "Identifier", "ImpliesKeyword", "Identifier">>}

ExtentStreams ==
  {prefix \o operand : prefix \in ExtentPrefixes, operand \in ExtentOperands}
    \cup {<<"IfKeyword", "OpenParenthesis", "Identifier", "CloseParenthesis">>
            \o first \o <<"ElseKeyword">> \o second :
            first \in ExtentOperands, second \in ExtentOperands}

CoreAlphabet ==
  {"Identifier", "OpenParenthesis", "CloseParenthesis", "OpenBracket", "Hash", "Dot", "Plus",
   "LessThanEquals", "Question", "DoubleHash"}

Streams ==
  {<<kind>> : kind \in ShortAlphabet} \cup SeqsUpTo(CoreAlphabet, MaxLen)
    \cup ValueStreams \cup SequenceStreams \cup PropertyStreams
    \cup FlagStreams \cup ConditionalStreams \cup EnclosedStreams
    \cup Groups \cup PostfixStreams \cup NestedStreams \cup CaseStreams \cup OtherStreams

\* name paths: a first part, then separator and part pairs
FirstParts ==
  {"Identifier", "ThisKeyword", "SuperKeyword", "LocalKeyword", "UnitSystemName",
   "RootSystemName", "NewKeyword", "XorKeyword"}

NextParts ==
  {<<separator, part>> : separator \in {"Dot", "DoubleColon"},
                         part \in {"Identifier", "ThisKeyword", "SuperKeyword"}}

NameStreams ==
  {<<first>> \o Concat(rest) : first \in FirstParts, rest \in SeqsUpTo(NextParts, MaxOps)}
    \cup {<<"Identifier", "Dot", "Identifier">> \o Repeat(<<"DoubleColon", "Identifier">>, k) :
            k \in 1..(MaxOps + 1)}
    \cup {<<"ThisKeyword", "Dot", "SuperKeyword">> \o
            Repeat(<<"DoubleColon", "Identifier">>, k) : k \in 1..(MaxOps + 1)}
    \cup {<<"Identifier", "Dot", "UniqueKeyword">>, <<"Identifier", "Dot", "NewKeyword">>,
          <<"Identifier", "Dot", "LocalKeyword">>, <<"Identifier", "DoubleColon">>}

\* assignment patterns: '{ first rest
PatternAlphabet ==
  {"Identifier", "Colon", "Comma", "OpenBrace", "CloseBrace", "CloseParenthesis"}

PatternRests ==
  SeqsUpTo(PatternAlphabet, MaxLen)
    \cup {<<"Colon", "Identifier", "CloseBrace">>,
          <<"Colon", "Identifier", "Comma", "Identifier", "Colon", "Identifier", "CloseBrace">>,
          <<"Colon", "Identifier", "Comma", "DefaultKeyword", "Colon", "Identifier",
            "CloseBrace">>,
          <<"OpenBrace", "Identifier", "CloseBrace", "CloseBrace">>,
          <<"OpenBrace", "Identifier", "Comma", "Identifier", "CloseBrace", "CloseBrace">>,
          <<"Comma", "Identifier", "CloseBrace">>,
          <<"Comma", "Identifier", "Comma", "Identifier", "CloseBrace">>,
          <<"Identifier", "Comma", "Identifier", "CloseBrace">>,
          <<"Identifier", "Comma", "Identifier">>,
          <<"Plus", "Identifier", "Identifier", "CloseBrace">>,
          <<"Plus", "Identifier", "Comma", "Identifier", "CloseBrace">>,
          <<"Plus", "Identifier", "Colon", "Identifier", "CloseBrace">>,
          <<"Plus", "Identifier", "CloseBrace">>}

PatternStreams ==
  {<<"ApostropheOpenBrace">> \o first \o rest :
     first \in {<<>>, <<"Identifier">>, <<"DefaultKeyword">>}, rest \in PatternRests}

\* event expressions: terms joined by `or` and `,`
EventTerms ==
  {<<"Identifier">>, <<"PosEdgeKeyword", "Identifier">>,
   <<"Identifier", "IffKeyword", "Identifier">>,
   <<"OpenParenthesis", "Identifier", "CloseParenthesis">>,
   <<"OpenParenthesis", "Identifier", "OrKeyword", "Identifier", "CloseParenthesis">>,
   <<"OpenParenthesis", "Identifier", "Comma", "Identifier", "IffKeyword", "Identifier",
     "CloseParenthesis">>}

EventStreams ==
  Alternations({"Identifier"}, {"OrKeyword", "Comma"}, MaxOps + 1)
    \cup {Concat(<<first, <<sep>>, second>>) :
            first \in EventTerms, sep \in {"OrKeyword", "Comma"}, second \in EventTerms}
    \cup {first \o <<sep1, "Identifier", sep2, "Identifier">> :
            first \in EventTerms, sep1 \in {"OrKeyword", "Comma"},
            sep2 \in {"OrKeyword", "Comma"}}
    \cup EventTerms
    \cup {<<"OpenParenthesis", "Identifier", "OrKeyword", "Identifier">>,
          <<"Identifier", "OrKeyword">>, <<"Identifier", "IffKeyword">>,
          <<"OpenParenthesis", "Identifier", "CloseParenthesis", "IffKeyword", "Identifier">>}

\* expressions of a constraint block, with `->` outside and inside of brackets
ConstraintStreams ==
  ValueStreams
    \cup {<<"Identifier", "Question", "Identifier", "MinusArrow", "Identifier", "Colon",
            "Identifier">>,
          <<"Identifier", "Question", "Identifier", "Colon", "Identifier", "MinusArrow",
            "Identifier">>,
          <<"OpenParenthesis", "Identifier", "MinusArrow", "Identifier", "CloseParenthesis">>,
          <<"OpenParenthesis", "Identifier", "MinusArrow", "Identifier", "CloseParenthesis",
            "MinusArrow", "Identifier">>,
          <<"Identifier", "OpenBracket", "Identifier", "MinusArrow", "Identifier",
            "CloseBracket", "MinusArrow", "Identifier">>,
          <<"OpenBrace", "Identifier", "MinusArrow", "Identifier", "CloseBrace", "MinusArrow",
            "Identifier">>,
          <<"Identifier", "OpenParenthesis", "Identifier", "MinusArrow", "Identifier",
            "CloseParenthesis", "MinusArrow", "Identifier">>,
          <<"ApostropheOpenBrace", "Identifier", "MinusArrow", "Identifier", "CloseBrace",
            "MinusArrow", "Identifier">>,
          <<"Identifier", "Plus", "OpenParenthesis", "Identifier", "MinusArrow", "Identifier",
            "CloseParenthesis", "MinusArrow", "Identifier">>,
          <<"Plus", "Identifier", "MinusArrow", "Identifier">>,
          <<"Identifier", "InsideKeyword", "OpenBrace", "Identifier", "MinusArrow",
            "Identifier", "CloseBrace", "MinusArrow", "Identifier">>,
          <<"Hash", "IntegerLiteral", "Identifier", "MinusArrow", "Identifier">>}

\* a left operand followed by `?`, `matches` or `&&&`, with the `?` at different places
PredicateStreams ==
  {<<"Identifier", "Question", "Identifier", "Colon", "Identifier">>,
   <<"Identifier", "MatchesKeyword", "Identifier", "Question", "Identifier", "Colon",
     "Identifier">>,
   <<"Identifier", "MatchesKeyword", "Dot", "Identifier", "Question", "Identifier",
     "Colon", "Identifier">>,
   <<"Identifier", "TripleAnd", "Identifier", "Question", "Identifier", "Colon",
     "Identifier">>,
   <<"Identifier", "MatchesKeyword", "Identifier">>,
   <<"Identifier", "TripleAnd", "Identifier">>,
   <<"Identifier", "MatchesKeyword", "Identifier", "TripleAnd", "Identifier">>,
   <<"Identifier", "MatchesKeyword", "Identifier", "TripleAnd", "Identifier", "Question",
     "Identifier", "Colon", "Identifier">>,
   <<"Identifier", "MatchesKeyword", "Identifier", "CloseParenthesis", "Question",
     "Identifier", "Colon", "Identifier">>,
   <<"Identifier", "TripleAnd", "Identifier", "CloseParenthesis", "Question", "Identifier",
     "Colon", "Identifier">>,
   <<"Identifier", "MatchesKeyword", "OpenParenthesis", "Identifier", "CloseParenthesis",
     "Question", "Identifier", "Colon", "Identifier">>,
   <<"Identifier", "TripleAnd", "OpenParenthesis", "Identifier", "CloseParenthesis",
     "Question", "Identifier", "Colon", "Identifier">>,
   <<"Identifier", "TripleAnd", "OpenParenthesis", "Identifier", "Question", "Identifier",
     "Colon", "Identifier", "CloseParenthesis">>,
   <<"Identifier", "TripleAnd", "Identifier", "Semicolon", "Question", "Identifier",
     "Colon", "Identifier">>,
   <<"Identifier", "TripleAnd", "Identifier", "OpenBracket", "Identifier", "CloseBracket",
     "Question", "Identifier", "Colon", "Identifier">>,
   <<"Identifier", "TripleAnd", "OpenBrace", "Identifier", "CloseBrace", "Question",
     "Identifier", "Colon", "Identifier">>,
   <<"Identifier", "TripleAnd", "OpenParenthesis", "Identifier", "Semicolon",
     "CloseParenthesis", "Question", "Identifier", "Colon", "Identifier">>,
   <<"Identifier", "Plus", "Identifier", "Question", "Identifier", "Colon", "Identifier">>,
   <<"Identifier", "Plus", "Identifier", "TripleAnd", "Identifier", "Question",
     "Identifier", "Colon", "Identifier">>,
   <<"Identifier", "Question", "Identifier", "Question", "Identifier", "Colon",
     "Identifier", "Colon", "Identifier">>,
   <<"Plus", "Identifier", "Question", "Identifier", "Colon", "Identifier">>,
   <<"Identifier", "OpenBracket", "Identifier", "Question", "Identifier", "Colon",
     "Identifier", "CloseBracket">>,
   <<"OpenParenthesis", "Identifier", "Question", "Identifier", "Colon", "Identifier",
     "CloseParenthesis", "TripleAnd", "Identifier">>,
   <<"Identifier", "Plus", "Identifier", "MatchesKeyword", "Identifier">>}

\* the minimum precedences around that of logical-or
PredicatePrecedences ==
  {0, getPrecedence("LogicalOrExpression") - 1, getPrecedence("LogicalOrExpression")}

Range(f) == {f[i] : i \in DOMAIN f}

\* ---------------------------------------------------------------- the parse as a state machine
\* the minimum precedences a climb is entered with: 0 and every operator's own
ValuePrecedences ==
  {0} \cup {getPrecedence(getBinaryExpression(k)) : k \in ValueOperators}

SequencePrecedences ==
  {0} \cup {getPrecedence(getBinarySequenceExpr(k)) : k \in SequenceOperators}

PropertyPrecedences ==
  {0} \cup {getPrecedence(getBinaryPropertyExpr(k)) : k \in PropertyOperators}

Init ==
  /\ tokens \in Streams \cup NameStreams \cup PatternStreams \cup UnaryStreams
                 \cup EventStreams \cup ConstraintStreams \cup ParenStreams
                 \cup PredicateStreams \cup ExtentStreams \cup RepetitionStreams
  /\ phase = "ready"
  /\ entry = "none"
  /\ opts = {}
  /\ minPrec = 0
  /\ result = NullNode
  /\ previous = NullNode
  /\ previousCur = NoEarlierParse
  /\ cur = InitState
  /\ stack = <<>>
  /\ ret = NullNode
  /\ val = MIRValueDefault
  /\ made = NotMade

Start(name, options, precedence, args, s) ==
  /\ phase' = "running"
  /\ entry' = name
  /\ opts' = options
  /\ minPrec' = precedence
  /\ stack' = <<Frame(name, args, 0)>>
  /\ cur' = s
  /\ ret' = NullNode
  /\ UNCHANGED <<val, made, tokens, result, previous, previousCur>>

\* a nonzero minimum precedence is tried on the one-operator streams of its climb
precedenceInput(p, streams) == p = 0 \/ (Len(tokens) <= 3 /\ tokens \in streams)

DoParseSubExpression ==
  \E p \in ValuePrecedences :
    /\ phase = "ready"
    /\ tokens \in Streams
    /\ precedenceInput(p, ValueStreams)
    /\ Start("parseSubExpression", {}, p, [options |-> {}, precedence |-> p], InitState)

\* an expression with `<=` in it is parsed a second time from its start, now with
\* ProceduralAssignmentContext set; the tree of the first parse is kept to compare
DoParseAgain ==
  /\ phase = "done"
  /\ entry = "parseSubExpression"
  /\ opts = {}
  /\ minPrec = 0
  /\ "LessThanEquals" \in Range(tokens)
  /\ previous' = result
  /\ previousCur' = cur
  /\ result' = NullNode
  /\ phase' = "running"
  /\ opts' = {"ProceduralAssignmentContext"}
  /\ stack' = <<Frame("parseSubExpression",
                      [options |-> {"ProceduralAssignmentContext"}, precedence |-> 0], 0)>>
  /\ cur' = InitState
  /\ ret' = NullNode
  /\ UNCHANGED <<val, made, tokens, entry, minPrec>>

DoParsePrimaryExpression ==
  \E prior \in BOOLEAN :
    /\ phase = "ready"
    /\ tokens \in Streams
    /\ Start("parsePrimaryExpression", IF prior THEN {"PriorDiag"} ELSE {}, 0,
             [options |-> {}],
             IF prior THEN addDiag(InitState, "ExpectedToken", 1) ELSE InitState)

\* a name path is parsed by parseName, as a type or member name is
DoParseName ==
  /\ phase = "ready"
  /\ tokens \in NameStreams
  /\ Start("parseName", {}, 0, [options |-> {}], InitState)

\* an assignment pattern without a type in front of it
DoParseAssignmentPattern ==
  /\ phase = "ready"
  /\ tokens \in PatternStreams
  /\ Start("parseAssignmentPatternExpression", {}, 0, [type |-> NullNode], InitState)

\* the event expression of an event control
DoParseEventExpression ==
  /\ phase = "ready"
  /\ tokens \in EventStreams
  /\ Start("parseEventExpression", {}, 0, NoArgs, InitState)

\* an expression of a constraint block
DoParseConstraintExpression ==
  /\ phase = "ready"
  /\ tokens \in ConstraintStreams
  /\ Start("parseSubExpression", {"ConstraintContext"}, 0,
           [options |-> {"ConstraintContext"}, precedence |-> 0], InitState)

\* an expression that may be a conditional, parsed inside and outside of a pattern
DoParseConditional ==
  \E p \in PredicatePrecedences, options \in {{}, {"PatternContext"}} :
    /\ phase = "ready"
    /\ tokens \in PredicateStreams
    /\ Start("parseSubExpression", options, p, [options |-> options, precedence |-> p],
             InitState)

\* the arguments an entry point was called with
EntryArgs ==
  CASE entry = "parseSubExpression" -> [options |-> opts, precedence |-> minPrec]
    [] entry = "parsePrimaryExpression" -> [options |-> {}]
    [] entry = "parseSequenceExpr" -> [precedence |-> minPrec, isInProperty |-> FALSE]
    [] entry = "parsePropertyExpr" -> [precedence |-> minPrec]
    [] entry = "parseName" -> [options |-> {}]
    [] entry = "parseAssignmentPatternExpression" -> [type |-> NullNode]
    [] entry = "parseEventExpression" -> NoArgs

\* the same entry point is run once more over the same stream with the same arguments,
\* from a fresh cursor, depth counter and diagnostics; the first tree and end state are kept
DoParseOnceMore ==
  /\ phase = "done"
  /\ previousCur = NoEarlierParse
  /\ previous' = result
  /\ previousCur' = cur
  /\ result' = NullNode
  /\ phase' = "running"
  /\ stack' = <<Frame(entry, EntryArgs, 0)>>
  /\ cur' = IF "PriorDiag" \in opts THEN addDiag(InitState, "ExpectedToken", 1) ELSE InitState
  /\ ret' = NullNode
  /\ UNCHANGED <<val, made, tokens, entry, opts, minPrec>>

DoParseSequenceExpr ==
  \E p \in SequencePrecedences :
    /\ phase = "ready"
    /\ tokens \in Streams \cup RepetitionStreams
    /\ precedenceInput(p, SequenceStreams)
    /\ Start("parseSequenceExpr", {}, p, [precedence |-> p, isInProperty |-> FALSE], InitState)

DoParsePropertyExpr ==
  \E p \in PropertyPrecedences :
    /\ phase = "ready"
    /\ tokens \in Streams \cup UnaryStreams \cup ParenStreams \cup ExtentStreams
                 \cup RepetitionStreams
    /\ precedenceInput(p, PropertyStreams)
    /\ Start("parsePropertyExpr", {}, p, [precedence |-> p], InitState)

Top == stack[Len(stack)]

\* what the rule on top of the stack does next
Command == Run(Top, ret, cur)

\* the running rule calls another rule
Invoke ==
  /\ phase = "running"
  /\ \E c \in {Command} :
       /\ c.op = "call"
       /\ stack' = Append([stack EXCEPT ![Len(stack)] = [@ EXCEPT !.pc = c.pc, !.v = c.v]],
                          Frame(c.rule, c.args, c.s.depth))
       /\ cur' = noteReentry(stack, c.rule, c.s)
  /\ ret' = NullNode
  /\ UNCHANGED <<val, made, tokens, phase, entry, opts, minPrec, result, previous, previousCur>>

\* the running rule returns to its caller
Return ==
  /\ phase = "running"
  /\ Len(stack) > 1
  /\ \E c \in {Command} :
       /\ c.op = "ret"
       /\ cur' = c.s
       /\ ret' = c.r
  /\ stack' = SubSeq(stack, 1, Len(stack) - 1)
  /\ UNCHANGED <<val, made, tokens, phase, entry, opts, minPrec, result, previous, previousCur>>

\* the entry point returns the tree
Finish ==
  /\ phase = "running"
  /\ Len(stack) = 1
  /\ \E c \in {Command} :
       /\ c.op = "ret"
       /\ result' = c.r
       /\ cur' = c.s
  /\ phase' = "done"
  /\ stack' = <<>>
  /\ ret' = NullNode
  /\ UNCHANGED <<val, made, tokens, entry, opts, minPrec, previous, previousCur>>

Next ==
  \/ DoParseSubExpression
  \/ DoParsePrimaryExpression
  \/ DoParseSequenceExpr
  \/ DoParsePropertyExpr
  \/ DoParseName
  \/ DoParseAssignmentPattern
  \/ DoParseEventExpression
  \/ DoParseConstraintExpression
  \/ DoParseConditional
  \/ DoParseAgain
  \/ Invoke
  \/ Return
  \/ Finish

Spec == Init /\ [][Next]_vars

\* every parse may be repeated; the streams are those of the name, postfix, group and
\* recovery paths
TwiceStreams ==
  {<<kind>> : kind \in ShortAlphabet} \cup SeqsUpTo(CoreAlphabet, MaxLen)
    \cup ConditionalStreams \cup EnclosedStreams \cup Groups \cup PostfixStreams
    \cup NestedStreams \cup OtherStreams \cup NameStreams \cup PatternStreams
    \cup UnaryStreams \cup EventStreams

TwiceInit == Init /\ tokens \in TwiceStreams

TwiceNext == Next \/ DoParseOnceMore

TwiceSpec == TwiceInit /\ [][TwiceNext]_vars

\* the streams the lookahead scanners have something to scan in: conditionals, brackets,
\* parentheses and name paths, with the short streams of every entry point
ScanStreams ==
  ConditionalStreams \cup EnclosedStreams \cup PostfixStreams \cup OtherStreams
    \cup RepetitionStreams \cup PredicateStreams
    \cup {t \in Streams \cup NameStreams \cup PatternStreams \cup EventStreams
                 \cup ConstraintStreams : Len(t) <= 3}

ScanInit == Init /\ tokens \in ScanStreams

ScanSpec == ScanInit /\ [][Next]_vars

\* a started parse keeps running: the parser is a sequential program
LiveSpec == Spec /\ WF_vars(Next)

\* ---------------------------------------------------------------- MIRValue on its own
\* no parse is under way
NoParse ==
  /\ tokens = <<>>
  /\ phase = "ready"
  /\ entry = "none"
  /\ opts = {}
  /\ minPrec = 0
  /\ result = NullNode
  /\ previous = NullNode
  /\ previousCur = NoEarlierParse
  /\ cur = InitState
  /\ stack = <<>>
  /\ ret = NullNode

MIRInit ==
  /\ NoParse
  /\ val = MIRValueDefault
  /\ made = [by |-> "default", kind |-> Empty, index |-> 0]

\* MIRValue()
MakeDefault ==
  /\ val' = MIRValueDefault
  /\ made' = [by |-> "default", kind |-> Empty, index |-> 0]
  /\ UNCHANGED parserVars

\* MIRValue(kind, index), for every kind of the enum and every index of a size_t
MakeIndexed ==
  \E kind \in Kind, index \in Words :
    /\ val' = MIRValue(kind, index)
    /\ made' = [by |-> "index", kind |-> kind, index |-> index]
    /\ UNCHANGED parserVars

\* MIRValue(cv)
MakeConstant ==
  \E address \in Addresses :
    /\ val' = MIRValueConstant(address)
    /\ made' = [by |-> "constant", kind |-> Constant, index |-> address]
    /\ UNCHANGED parserVars

MIRNext == MakeDefault \/ MakeIndexed \/ MakeConstant

MIRSpec == MIRInit /\ [][MIRNext]_vars

\* ================================================================ properties
\* ---------------------------------------------------------------- the trees the grammar describes
Id(i) == identifierName(Token("Identifier", i))

\* the operand an entry point makes of the identifier at position i
Operand(i) ==
  CASE entry = "parseSequenceExpr" -> simpleSequenceExpr(Id(i), NullNode)
    [] entry = "parsePropertyExpr" -> simplePropertyExpr(simpleSequenceExpr(Id(i), NullNode))
    [] OTHER -> Id(i)

\* the node kind of the operator token at position i, in the family of the entry point
OperatorKind(i) ==
  CASE entry = "parseSequenceExpr" -> getBinarySequenceExpr(tokens[i])
    [] entry = "parsePropertyExpr" -> getBinaryPropertyExpr(tokens[i])
    [] OTHER -> getBinaryExpression(tokens[i])

Binary(left, i, right) ==
  CASE entry = "parseSequenceExpr" ->
         binarySequenceExpr(OperatorKind(i), left, Token(tokens[i], i), right)
    [] entry = "parsePropertyExpr" ->
         binaryPropertyExpr(OperatorKind(i), left, Token(tokens[i], i), right)
    [] OTHER -> binaryExpression(OperatorKind(i), left, Token(tokens[i], i), NoAttributes, right)

Conditional(condition, question, lhs, colon, rhs) ==
  conditionalExpression(conditionalPredicate(<<conditionalPattern(condition, NullNode)>>),
                        Token("Question", question), NoAttributes, lhs,
                        Token("Colon", colon), rhs)

\* a finished first parse of an operand-operator stream by the climb of its own family
ClimbDone ==
  /\ phase = "done"
  /\ opts = {}
  /\ previous = NullNode
  /\ \/ entry = "parseSubExpression" /\ tokens \in ValueStreams
     \/ entry = "parseSequenceExpr" /\ tokens \in SequenceStreams
     \/ entry = "parsePropertyExpr" /\ tokens \in PropertyStreams

LeftGrouped == Binary(Binary(Operand(1), 2, Operand(3)), 4, Operand(5))

RightGrouped == Binary(Operand(1), 2, Binary(Operand(3), 4, Operand(5)))

\* the node kinds of the binary value operators
BinaryExpressionKinds ==
  {getBinaryExpression(kind) :
     kind \in {"Plus", "Minus", "Star", "DoubleStar", "DoubleEquals", "LessThanEquals",
               "LessThan", "DoubleAnd", "DoubleOr", "MinusArrow", "LessThanMinusArrow",
               "Equals", "PlusEqual"}}

\* the operand a chain of binary operators starts with
RECURSIVE LeftmostOperand(_)
LeftmostOperand(n) ==
  IF n.kind \in BinaryExpressionKinds THEN LeftmostOperand(n.kids[1]) ELSE n

\* the `<=` and nonblocking-assignment operators of a tree, each with its token's position
RECURSIVE Comparisons(_)
Comparisons(n) ==
  (IF n.kind \in {"LessThanEqualExpression", "NonblockingAssignmentExpression"}
     THEN {<<n.toks[1].at, n.kind>>} ELSE {})
    \cup UNION {Comparisons(n.kids[i]) : i \in DOMAIN n.kids}

\* ---------------------------------------------------------------- C1
\* C1: every parse from an entry point ends and hands back a node, and no loop of the
\* grammar (binary climb, postfix chain, name path, delayed sequence, property case)
\* goes round without consuming a token.
C1_Terminates == [](~cur.stuck) /\ <>(phase = "done" /\ result.kind # "Null")

\* a property case with two items has been parsed to the end of the stream
C1_Witness ==
  /\ phase = "done"
  /\ entry = "parsePropertyExpr"
  /\ tokens = <<"CaseKeyword", "OpenParenthesis", "Identifier", "CloseParenthesis",
                "Identifier", "Colon", "Identifier", "Semicolon",
                "DefaultKeyword", "Colon", "Identifier", "Semicolon", "EndCaseKeyword">>
  /\ result.kind = "CasePropertyExpr"
  /\ cur.pos = Len(tokens) + 1
  /\ ~cur.stuck

\* ---------------------------------------------------------------- C2
\* C2: in each of the three climbs the operator of higher precedence binds its two
\* neighbours first: `a lo b hi c` is lo(a, hi(b, c)) and `a hi b lo c` is lo(hi(a, b), c).
C2_Precedence ==
  (ClimbDone /\ minPrec = 0 /\ Len(tokens) = 5) =>
    LET first == getPrecedence(OperatorKind(2))
        second == getPrecedence(OperatorKind(4))
    IN /\ first < second => result = RightGrouped
       /\ first > second => result = LeftGrouped

\* `a + b * c` has been parsed to Add(a, Multiply(b, c))
C2_Witness ==
  /\ phase = "done"
  /\ entry = "parseSubExpression"
  /\ tokens = <<"Identifier", "Plus", "Identifier", "Star", "Identifier">>
  /\ result.kind = "AddExpression"
  /\ result.kids[3].kind = "MultiplyExpression"

\* ---------------------------------------------------------------- C3
\* C3: two operators of equal precedence are grouped by associativity alone, and a climb
\* entered with minimum precedence p takes an operator exactly when its precedence is
\* above p, or equal to p with the operator right-associative.
C3_Associativity ==
  ClimbDone =>
    /\ (minPrec = 0 /\ Len(tokens) = 5 /\
        getPrecedence(OperatorKind(2)) = getPrecedence(OperatorKind(4))) =>
         result = IF isRightAssociative(OperatorKind(4)) THEN RightGrouped ELSE LeftGrouped
    /\ Len(tokens) = 3 =>
         LET precedence == getPrecedence(OperatorKind(2))
             taken == \/ precedence > minPrec
                      \/ precedence = minPrec /\ isRightAssociative(OperatorKind(2))
         IN IF taken THEN result = Binary(Operand(1), 2, Operand(3)) /\ cur.pos = 4
            ELSE result = Operand(1) /\ cur.pos = 2

\* `a -> b -> c` has been grouped to the right, the operators being right-associative
C3_Witness ==
  /\ phase = "done"
  /\ entry = "parseSubExpression"
  /\ minPrec = 0
  /\ tokens = <<"Identifier", "MinusArrow", "Identifier", "MinusArrow", "Identifier">>
  /\ result.kind = "LogicalImplicationExpression"
  /\ result.kids[3].kind = "LogicalImplicationExpression"

\* ---------------------------------------------------------------- C4
\* C4: a `?` after the else-branch operand of a conditional belongs to that else branch:
\* `a ? b : c ? d : e` is Conditional(a, b, Conditional(c, d, e)).
C4_ConditionalRightAssociative ==
  (phase = "done" /\ entry = "parseSubExpression" /\ minPrec = 0 /\ Len(tokens) >= 7 /\
   SubSeq(tokens, 1, 6) =
     <<"Identifier", "Question", "Identifier", "Colon", "Identifier", "Question">>) =>
    /\ result.kind = "ConditionalExpression"
    /\ result.toks[1] = Token("Question", 2)
    /\ result.kids[4].kind = "ConditionalExpression"
    /\ result.kids[4].toks[1] = Token("Question", 6)
    /\ result.kids[4].kids[1] = conditionalPredicate(<<conditionalPattern(Id(5), NullNode)>>)
    /\ tokens = <<"Identifier", "Question", "Identifier", "Colon", "Identifier", "Question",
                  "Identifier", "Colon", "Identifier">> =>
         result = Conditional(Id(1), 2, Id(3), 4, Conditional(Id(5), 6, Id(7), 8, Id(9)))

C4_Witness ==
  /\ phase = "done"
  /\ entry = "parseSubExpression"
  /\ tokens = <<"Identifier", "Question", "Identifier", "Colon", "Identifier", "Question",
                "Identifier", "Colon", "Identifier">>
  /\ result.kids[4].kind = "ConditionalExpression"

\* ---------------------------------------------------------------- C5
\* C5: `a <= b` is a nonblocking assignment over the `<=` token when it is parsed with
\* ProceduralAssignmentContext, and a less-than-or-equal comparison of the same operands
\* when it is parsed without.
C5_ContextSensitiveOperator ==
  (phase = "done" /\ entry = "parseSubExpression" /\ minPrec = 0 /\
   tokens = <<"Identifier", "LessThanEquals", "Identifier">>) =>
    result = binaryExpression(IF "ProceduralAssignmentContext" \in opts
                                THEN "NonblockingAssignmentExpression"
                                ELSE "LessThanEqualExpression",
                              Id(1), Token("LessThanEquals", 2), NoAttributes, Id(3))

\* the second parse of `a <= b`, with the flag, has ended in a nonblocking assignment
C5_Witness ==
  /\ phase = "done"
  /\ opts = {"ProceduralAssignmentContext"}
  /\ tokens = <<"Identifier", "LessThanEquals", "Identifier">>
  /\ previous.kind = "LessThanEqualExpression"
  /\ result.kind = "NonblockingAssignmentExpression"

\* ---------------------------------------------------------------- C6
\* the position of the first operator after the first operand of an expression, found on
\* the left spine of its tree; 0 when it has none
RECURSIVE FirstOperator(_)
FirstOperator(n) ==
  IF n.kind \in BinaryExpressionKinds THEN
    LET inner == FirstOperator(n.kids[1]) IN IF inner # 0 THEN inner ELSE n.toks[1].at
  ELSE IF n.kind = "ConditionalExpression" THEN
    LET inner == FirstOperator(n.kids[1].kids[1].kids[1])
    IN IF inner # 0 THEN inner ELSE n.toks[1].at
  ELSE 0

\* C6: parsed with ProceduralAssignmentContext, only a `<=` that is the first operator
\* after the first operand can become a nonblocking assignment; every other `<=` of the
\* expression is the same LessThanEqualExpression operator that the parse without the
\* flag makes of it.
C6_FlagUsedOnce ==
  (phase = "done" /\ "ProceduralAssignmentContext" \in opts) =>
    \A i \in DOMAIN tokens :
      (tokens[i] = "LessThanEquals" /\ i # FirstOperator(previous)) =>
        /\ <<i, "NonblockingAssignmentExpression">> \notin Comparisons(result)
        /\ <<i, "LessThanEqualExpression">> \in Comparisons(result)
             <=> <<i, "LessThanEqualExpression">> \in Comparisons(previous)

\* ---------------------------------------------------------------- C7
\* C7: in a sequence, `( a ) + b` is a simple sequence over the plain binary expression
\* Add(Parenthesized(a), b), the group being followed by a binary or postfix continuation;
\* `( a ## 1 b )` stays a parenthesized sequence over a delayed sequence.
C7_ParenthesizedDemotion ==
  (phase = "done" /\ entry = "parseSequenceExpr" /\ minPrec = 0) =>
    /\ tokens = <<"OpenParenthesis", "Identifier", "CloseParenthesis", "Plus", "Identifier">> =>
         result = simpleSequenceExpr(
                    binaryExpression("AddExpression",
                                     parenthesizedExpression(Token("OpenParenthesis", 1), Id(2),
                                                             Token("CloseParenthesis", 3)),
                                     Token("Plus", 4), NoAttributes, Id(5)),
                    NullNode)
    /\ (Len(tokens) >= 4 /\
        SubSeq(tokens, 1, 4) = <<"OpenParenthesis", "Identifier", "CloseParenthesis", "Plus">>) =>
         /\ result.kind = "SimpleSequenceExpr"
         /\ result.kids[1].kind = "AddExpression"
         /\ LeftmostOperand(result.kids[1]) =
              parenthesizedExpression(Token("OpenParenthesis", 1), Id(2),
                                      Token("CloseParenthesis", 3))
    /\ (Len(tokens) >= 6 /\
        SubSeq(tokens, 1, 6) = <<"OpenParenthesis", "Identifier", "DoubleHash", "IntegerLiteral",
                                 "Identifier", "CloseParenthesis">> /\
        (Len(tokens) > 6 => tokens[7] = "Identifier")) =>
         /\ result.kind = "ParenthesizedSequenceExpr"
         /\ result.kids[1].kind = "DelayedSequenceExpr"
         /\ result.toks[1] = Token("OpenParenthesis", 1)

C7_Witness ==
  /\ phase = "done"
  /\ entry = "parseSequenceExpr"
  /\ tokens = <<"OpenParenthesis", "Identifier", "CloseParenthesis", "Plus", "Identifier">>
  /\ result.kind = "SimpleSequenceExpr"
  /\ result.kids[1].kids[1].kind = "ParenthesizedExpression"

\* ---------------------------------------------------------------- C8
ExpectedKinds ==
  {"CloseParenthesis", "CloseBracket", "CloseBrace", "Colon", "Identifier", "DoubleHash",
   "OpenParenthesis", "Apostrophe", "Star", "EndCaseKeyword", "Semicolon"}

\* C8: `f (` at the end of input is an invocation whose argument list holds the real `(`
\* and a missing `)`, with exactly one diagnostic; and wherever the parse stands, expecting
\* a token that is not there leaves the cursor in place, hands back a missing token and
\* the parse goes on.
C8_MissingTokenRecovery ==
  /\ (phase = "done" /\ entry = "parseSubExpression" /\ previous = NullNode /\
      tokens = <<"Identifier", "OpenParenthesis">>) =>
       /\ result = invocationExpression(Id(1), NullNode,
                     argumentList(Token("OpenParenthesis", 2), <<>>,
                                  createMissing("CloseParenthesis", 3)))
       /\ Len(cur.diags) = 1
       /\ cur.pos = 3
  /\ phase = "running" =>
       \A kind \in ExpectedKinds :
         peekKind(cur) # kind =>
           LET expected == expect(cur, kind)
           IN  /\ expected.s.pos = cur.pos
               /\ expected.t = createMissing(kind, location(cur))
               /\ Len(expected.s.diags) = Len(cur.diags) + 1

C8_Witness ==
  /\ phase = "done"
  /\ entry = "parseSubExpression"
  /\ tokens = <<"Identifier", "OpenParenthesis">>
  /\ result.kind = "InvocationExpression"
  /\ result.kids[3].toks[2].missing
  /\ Len(cur.diags) = 1

\* ---------------------------------------------------------------- C9
\* the token can start neither a literal, a group, a type nor a name, and is no `.` or `::`
StartsNoPrimary(kind) ==
  /\ kind \notin {"StringLiteral", "UnbasedUnsizedLiteral", "NullKeyword", "OneStep", "Dollar",
                  "TimeLiteral", "RealLiteral", "IntegerLiteral", "IntegerBase",
                  "OpenParenthesis", "ApostropheOpenBrace", "OpenBrace", "SignedKeyword",
                  "UnsignedKeyword", "ConstKeyword", "SystemIdentifier", "Dot", "DoubleColon"}
  /\ ~isPossibleDataType(kind)
  /\ getKeywordNameExpression(kind) = "Unknown"

FirstKind == IF tokens = <<>> THEN "EndOfFile" ELSE tokens[1]

MissingIdentifierRecovered ==
  /\ result = identifierName(createMissing("Identifier", 1))
  /\ cur.pos = 1
  /\ Cardinality({i \in DOMAIN cur.diags : cur.diags[i].at = 1}) = 1
  /\ cur.diags = IF "PriorDiag" \in opts THEN <<[code |-> "ExpectedToken", at |-> 1]>>
                 ELSE <<[code |-> "ExpectedExpression", at |-> 1]>>

C10_EveryCycleGuarded == cur.reent = {}

\* ---------------------------------------------------------------- C11
\* how often the token at position p of the stream occurs in the tree n
RECURSIVE Occurrences(_, _), OccurrencesIn(_, _)
Occurrences(n, p) ==
  Cardinality({i \in DOMAIN n.toks :
                  ~n.toks[i].missing /\ n.toks[i].at = p /\ n.toks[i].kind = tokens[p]})
    + OccurrencesIn(n.kids, p)

OccurrencesIn(kids, p) ==
  IF kids = <<>> THEN 0 ELSE Occurrences(Head(kids), p) + OccurrencesIn(Tail(kids), p)

\* C11: token conservation: after a parse every token consumed from the cursor (other than
\* those skipped by the list recovery) is attached to exactly one node of the returned
\* tree, and no token the cursor has not passed is attached.
C11_TokenConservation ==
  phase = "done" =>
    \A p \in 1..Len(tokens) :
      Occurrences(result, p) = IF p < cur.pos /\ p \notin cur.skipped THEN 1 ELSE 0

\* ---------------------------------------------------------------- C12
\* the finished parse is the second one of the same entry point with the same arguments
ParsedTwice ==
  /\ phase = "done"
  /\ previousCur # NoEarlierParse
  /\ "ProceduralAssignmentContext" \notin opts

Untouched(before, after) ==
  /\ after.pos = before.pos
  /\ after.depth = before.depth
  /\ after.diags = before.diags

\* C13: the lookahead scanners are pure: from the parser state of any moment of a parse,
\* with the cursor at any position of the stream, isConditionalExpression,
\* isSequenceRepetition and the scanTypePart call of parseNamePart leave the cursor
\* position, the depth counter and the diagnostics unchanged and answer with a boolean
\* (scanTypePart also with an index).
C13_ScannersPure ==
  phase = "running" =>
    \A p \in 1..(Len(tokens) + 1) :
      LET s == [cur EXCEPT !.pos = p]
          conditional == isConditionalExpression(s)
          repetition == isSequenceRepetition(s)
          part == scanTypePart(s, "isSemicolon", 1, "OpenBracket", "CloseBracket", 1)
      IN /\ Untouched(s, conditional.s) /\ conditional.found \in BOOLEAN
         /\ Untouched(s, repetition.s) /\ repetition.found \in BOOLEAN
         /\ Untouched(s, part.s) /\ part.found \in BOOLEAN /\ part.index \in Nat

\* isSequenceRepetition has answered yes at the `[` after the operand of a sequence and the
\* repetition was then parsed from that same `[`
C13_Witness ==
  /\ phase = "done"
  /\ entry = "parseSequenceExpr"
  /\ tokens = <<"Identifier", "OpenBracket", "Star", "IntegerLiteral", "CloseBracket">>
  /\ result.kind = "SimpleSequenceExpr"
  /\ result.kids[1] = Id(1)
  /\ result.kids[2].kind = "SequenceRepetition"
  /\ result.kids[2].toks[1] = Token("OpenBracket", 2)
  /\ cur.pos = 6

\* ---------------------------------------------------------------- C14
NameDone == phase = "done" /\ entry = "parseName"

\* the InvalidAccessDotColon diagnostics of the parse
DotColonDiags == {i \in DOMAIN cur.diags : cur.diags[i].code = "InvalidAccessDotColon"}

\* the consumed path has a `::` separator after a `.` separator
MixedSeparators ==
  \E i, j \in 1..(cur.pos - 1) : i < j /\ tokens[i] = "Dot" /\ tokens[j] = "DoubleColon"

\* C14: a name path parsed by one call of parseName that mixes `.` and `::` has exactly one
\* InvalidAccessDotColon diagnostic, however many `::` follow the `.` and whatever keyword
\* parts it has, and no separator token has two diagnostics.
C14_MixingFlaggedOnce ==
  NameDone =>
    /\ MixedSeparators => Cardinality(DotColonDiags) = 1
    /\ \A i, j \in DOMAIN cur.diags :
         (i # j /\ cur.diags[i].at \in DOMAIN tokens /\
          tokens[cur.diags[i].at] \in {"Dot", "DoubleColon"}) =>
           cur.diags[i].at # cur.diags[j].at

\* ---------------------------------------------------------------- C15
\* the separator that has to follow the keyword part
RequiredSeparator(kind) ==
  CASE kind \in {"UnitSystemName", "LocalKeyword"} -> "DoubleColon"
    [] kind \in {"RootSystemName", "SuperKeyword"} -> "Dot"
    [] OTHER -> "Unknown"

\* the token at position p is a consumed $unit, local, $root or super part that is not
\* followed by its separator
LacksSeparator(p) ==
  /\ p < cur.pos
  /\ RequiredSeparator(tokens[p]) # "Unknown"
  /\ (p = Len(tokens) \/ tokens[p + 1] # RequiredSeparator(tokens[p]))

\* C15: in a parsed name path every $unit, local, $root or super part that is not
\* immediately followed by its separator (`::` for $unit and local, `.` for $root and
\* super) has a diagnostic at the token after it, wrong separator or none, also at the end
\* of the path; and a path that is only one of these keywords comes back as a ScopedName
\* with a synthesized missing separator.
C15_SeparatorEnforced ==
  NameDone =>
    /\ \A p \in DOMAIN tokens :
         LacksSeparator(p) => \E i \in DOMAIN cur.diags : cur.diags[i].at = p + 1
    /\ (Len(tokens) = 1 /\ RequiredSeparator(tokens[1]) # "Unknown") =>
         /\ result.kind = "ScopedName"
         /\ result.kids[1] = keywordName(getKeywordNameExpression(tokens[1]),
                                         Token(tokens[1], 1))
         /\ result.toks = <<createMissing(RequiredSeparator(tokens[1]), 2)>>

\* ---------------------------------------------------------------- C16
\* the parts of a name path
RECURSIVE NameParts(_)
NameParts(n) ==
  IF n.kind = "ScopedName" THEN NameParts(n.kids[1]) \cup NameParts(n.kids[2]) ELSE {n}

\* the token at position p was consumed as a keyword-name node of the path
KeywordPartAt(p) ==
  /\ p < cur.pos
  /\ keywordName(getKeywordNameExpression(tokens[p]), Token(tokens[p], p)) \in NameParts(result)

\* the token at position p was refused: an identifier is missing there, reported, and the
\* token is still the current one
RefusedAt(p) ==
  /\ cur.pos = p
  /\ identifierName(createMissing("Identifier", p)) \in NameParts(result)
  /\ \E i \in DOMAIN cur.diags : cur.diags[i].at = p

ScopeKeywords ==
  {"ThisKeyword", "SuperKeyword", "LocalKeyword", "UnitSystemName", "RootSystemName"}

MethodKeywords == {"UniqueKeyword", "AndKeyword", "OrKeyword", "XorKeyword"}

\* the part at position p follows a consumed separator
FollowsSeparator(p) == p >= 3 /\ p - 1 < cur.pos /\ tokens[p - 1] \in {"Dot", "DoubleColon"}

\* what lines 670-694 accept after a separator
AcceptedAfterSeparator(p) ==
  \/ tokens[p] \in MethodKeywords \cup {"NewKeyword"}
  \/ tokens[p] = "SuperKeyword" /\ tokens[p - 2] \in {"ThisKeyword", "LocalKeyword"}
  \/ tokens[p] = "ThisKeyword" /\ tokens[p - 2] = "LocalKeyword"

NonFirstKeywords ==
  \A p \in DOMAIN tokens :
    (FollowsSeparator(p) /\ tokens[p] \in ScopeKeywords \cup MethodKeywords \cup {"NewKeyword"}) =>
      IF AcceptedAfterSeparator(p) THEN KeywordPartAt(p) ELSE RefusedAt(p)

\* C16 as stated: as the first element of a path only `new` is taken as a keyword name; a
\* leading this, super, local, $unit, $root or built-in method name is refused with a
\* diagnostic; after a separator super is taken after this or local and this after local.
C16_AsStated ==
  NameDone =>
    /\ tokens[1] = "NewKeyword" => KeywordPartAt(1)
    /\ tokens[1] \in ScopeKeywords \cup MethodKeywords => RefusedAt(1)
    /\ NonFirstKeywords

\* C16: as the first element of a path `new` and the scope keywords this, super, local,
\* $unit and $root are taken as keyword names; only a leading built-in method name is
\* refused with a diagnostic. After a separator `new` and the method names are taken, super
\* after this or local, this after local, and every other scope keyword is refused.
C16_FirstElement ==
  NameDone =>
    /\ tokens[1] \in ScopeKeywords \cup {"NewKeyword"} => KeywordPartAt(1)
    /\ tokens[1] \in MethodKeywords => RefusedAt(1)
    /\ NonFirstKeywords

\* `local :: this . super` has been parsed: three keyword parts, each taken
C16_Witness ==
  /\ NameDone
  /\ tokens = <<"LocalKeyword", "DoubleColon", "ThisKeyword", "Dot", "SuperKeyword">>
  /\ KeywordPartAt(1) /\ KeywordPartAt(3) /\ KeywordPartAt(5)
  /\ cur.pos = 6

\* an assignment pattern has been parsed
PatternDone == phase = "done" /\ entry = "parseAssignmentPatternExpression"

\* the pattern node under the AssignmentPatternExpression
PatternOf(n) == n.kids[2]

\* the stream is `'{` first ... with `default`, `a` or `a + a` as the first element
OneTokenFirst ==
  /\ Len(tokens) >= 2
  /\ tokens[1] = "ApostropheOpenBrace"
  /\ tokens[2] \in {"Identifier", "DefaultKeyword"}

\* the first element is `a + a`
SumFirst ==
  /\ Len(tokens) >= 4
  /\ tokens[2] = "Identifier" /\ tokens[3] = "Plus" /\ tokens[4] = "Identifier"

\* the position of the token after the first element
NextAt == IF SumFirst THEN 5 ELSE 3

FirstElement ==
  IF tokens[2] = "DefaultKeyword"
    THEN literalExpression("DefaultPatternKeyExpression", Token("DefaultKeyword", 2))
    ELSE IF SumFirst THEN Binary(Id(2), 3, Id(4)) ELSE Id(2)

\* the kind of the token after the first element
AfterFirst == IF Len(tokens) >= NextAt THEN tokens[NextAt] ELSE "EndOfFile"

\* the elements of a list buffer, separators left out
Elements(buf) == SelectSeq(buf, LAMBDA n : n.kind # "Token")

\* C17: the token after the first element alone chooses the pattern kind: `:` a
\* StructuredAssignmentPattern keyed by the first element, `{` a ReplicatedAssignmentPattern
\* counted by it, `,` a SimpleAssignmentPattern of two or more positions, `}` a
\* SimpleAssignmentPattern of exactly that element; and `'{ }` is a SimpleAssignmentPattern
\* of no elements with exactly one EmptyAssignmentPattern diagnostic.
C17_PatternKind ==
  PatternDone =>
    LET pattern == PatternOf(result) IN
    /\ result.kind = "AssignmentPatternExpression"
    /\ (OneTokenFirst /\ AfterFirst = "Colon") =>
         /\ pattern.kind = "StructuredAssignmentPattern"
         /\ pattern.kids[1].kind = "AssignmentPatternItem"
         /\ pattern.kids[1].kids[1] = FirstElement
         /\ pattern.kids[1].toks = <<Token("Colon", NextAt)>>
    /\ (OneTokenFirst /\ AfterFirst = "OpenBrace") =>
         /\ pattern.kind = "ReplicatedAssignmentPattern"
         /\ pattern.kids[1] = FirstElement
         /\ pattern.toks[2] = Token("OpenBrace", NextAt)
    /\ (OneTokenFirst /\ AfterFirst = "Comma") =>
         /\ pattern.kind = "SimpleAssignmentPattern"
         /\ Len(pattern.kids) >= 2
         /\ pattern.kids[1] = FirstElement
         /\ pattern.kids[2] = TokenNode(Token("Comma", NextAt))
         /\ cur.diags = <<>> => Len(Elements(pattern.kids)) >= 2
    /\ (OneTokenFirst /\ AfterFirst = "CloseBrace") =>
         /\ pattern = Node("SimpleAssignmentPattern",
                           <<Token("ApostropheOpenBrace", 1), Token("CloseBrace", NextAt)>>,
                           <<FirstElement>>)
         /\ cur.diags = <<>>
    /\ (Len(tokens) >= 2 /\ tokens[1] = "ApostropheOpenBrace" /\ tokens[2] = "CloseBrace") =>
         /\ pattern = Node("SimpleAssignmentPattern",
                           <<Token("ApostropheOpenBrace", 1), Token("CloseBrace", 2)>>, <<>>)
         /\ Len(cur.diags) = 1
         /\ cur.diags[1].code = "EmptyAssignmentPattern"
         /\ cur.diags[1].at = 1

\* `'{ default : a , a : a }` has been parsed into a structured pattern of two items
C17_Witness ==
  /\ PatternDone
  /\ tokens = <<"ApostropheOpenBrace", "DefaultKeyword", "Colon", "Identifier", "Comma",
                "Identifier", "Colon", "Identifier", "CloseBrace">>
  /\ PatternOf(result).kind = "StructuredAssignmentPattern"
  /\ Len(Elements(PatternOf(result).kids)) = 2
  /\ cur.diags = <<>>
  /\ cur.pos = 10

\* a pattern whose first element is followed by none of `:`, `{`, `,`, `}`
MalformedPattern ==
  /\ PatternDone
  /\ OneTokenFirst
  /\ AfterFirst \in {"Identifier", "CloseParenthesis", "EndOfFile"}

\* the pattern is a simple one that starts with the first element and a missing comma
RecoveredAsList ==
  LET pattern == PatternOf(result) IN
  /\ pattern.kind = "SimpleAssignmentPattern"
  /\ Len(pattern.kids) >= 2
  /\ pattern.kids[1] = FirstElement
  /\ pattern.kids[2] = TokenNode(createMissing("Comma", NextAt))

\* after the first element comes a comma-separated list of identifiers closed by `}`
WellFormedRemainder ==
  /\ Len(tokens) > NextAt
  /\ (Len(tokens) - NextAt) % 2 = 1
  /\ tokens[Len(tokens)] = "CloseBrace"
  /\ \A i \in NextAt .. Len(tokens) - 1 :
       tokens[i] = IF (i - NextAt) % 2 = 0 THEN "Identifier" ELSE "Comma"

RECURSIVE Holders(_, _)
HoldersIn(kids, p) == UNION {Holders(kids[i], p) : i \in DOMAIN kids}

Holders(n, p) ==
  IF n = NullNode THEN {}
  ELSE (IF \E i \in DOMAIN n.toks : ~n.toks[i].missing /\ n.toks[i].at = p
          THEN {n.kind} ELSE {})
         \cup HoldersIn(n.kids, p)

\* the number of parentheses open at position p
ParenDepth(p) ==
  Cardinality({i \in 1..(p - 1) : tokens[i] \in {"OpenParenthesis", "OpenParenthesisStar"}})
    - Cardinality({i \in 1..(p - 1) :
                     tokens[i] \in {"CloseParenthesis", "StarCloseParenthesis"}})

\* a consumed `and` or `or` outside every parenthesized group, not a method name of a path
OpenAndOr(p) ==
  /\ p \in DOMAIN tokens
  /\ tokens[p] \in {"AndKeyword", "OrKeyword"}
  /\ p < cur.pos
  /\ ParenDepth(p) = 0
  /\ p > 1 => tokens[p - 1] \notin {"Dot", "DoubleColon"}

PropertyDone == phase = "done" /\ entry = "parsePropertyExpr"

\* C19: in a property no `and` or `or` outside a parenthesized group is consumed by the
\* sequence grammar, at any level of the parse; each one is the operator of a binary property
\* node.
C19_AndOrLeftToProperty ==
  PropertyDone =>
    \A p \in DOMAIN tokens :
      OpenAndOr(p) => Holders(result, p) = {getBinaryPropertyExpr(tokens[p])}

\* a property that starts with a unary operator has been parsed
UnaryDone == PropertyDone /\ tokens \in UnaryStreams

\* the operator is immediately followed by `[` selector `]`
BoundsGiven == Len(tokens) >= 2 /\ tokens[2] = "OpenBracket"

\* the position of the `]` that closes the bounds
BoundsEnd == CHOOSE i \in 3..Len(tokens) : tokens[i] = "CloseBracket"

\* the operator of position 1 heads a unary-select node that holds the brackets as well
SelectNode ==
  /\ Holders(result, 1) = {"UnarySelectPropertyExpr"}
  /\ Holders(result, 2) = {"UnarySelectPropertyExpr"}
  /\ Holders(result, BoundsEnd) = {"UnarySelectPropertyExpr"}
  /\ cur.diags = <<>>
  /\ cur.pos = Len(tokens) + 1

\* the operator of position 1 heads a plain unary node
PlainNode == Holders(result, 1) = {"UnaryPropertyExpr"}

\* C20 as stated: each of not, nexttime, s_nexttime, always, s_always, eventually and
\* s_eventually followed by `[` selector `]` takes the bracket group as its bounds and gives a
\* unary-select node; without the bracket it gives a plain unary node.
C20_AsStated == UnaryDone => IF BoundsGiven THEN SelectNode ELSE PlainNode

\* C20: each of nexttime, s_nexttime, always, s_always, eventually and s_eventually followed
\* by `[` selector `]` takes the bracket group as its bounds and gives a unary-select node,
\* and without the bracket a plain unary node; `not` gives a plain unary node in both cases,
\* a bracket after it being read as the start of its operand, which is reported.
C20_BoundsButNot ==
  UnaryDone =>
    IF tokens[1] = "NotKeyword"
      THEN /\ PlainNode
           /\ BoundsGiven =>
                /\ "UnarySelectPropertyExpr" \notin Holders(result, 2)
                /\ cur.diags # <<>>
                /\ cur.diags[1].at = 2
      ELSE IF BoundsGiven THEN SelectNode ELSE PlainNode

\* `s_always [ 1 : 1 ] a and a` has been parsed: the bounds are taken, the operand is the
\* whole conjunction
C20_Witness ==
  /\ UnaryDone
  /\ tokens = <<"SAlwaysKeyword", "OpenBracket", "IntegerLiteral", "Colon", "IntegerLiteral",
                "CloseBracket", "Identifier", "AndKeyword", "Identifier">>
  /\ result.kind = "UnarySelectPropertyExpr"
  /\ result.toks = <<Token("SAlwaysKeyword", 1), Token("OpenBracket", 2),
                     Token("CloseBracket", 6)>>
  /\ result.kids[2] = Binary(Operand(7), 8, Operand(9))
  /\ cur.pos = 10

\* an event expression has been parsed
EventDone == phase = "done" /\ entry = "parseEventExpression"

\* every node under n, n included
RECURSIVE Subnodes(_)
Subnodes(n) ==
  IF n = NullNode THEN {} ELSE {n} \cup UNION {Subnodes(n.kids[i]) : i \in DOMAIN n.kids}

\* the operators and the terms down the right spine of an event expression
RECURSIVE SpineOperators(_)
SpineOperators(n) ==
  IF n.kind = "BinaryEventExpression"
    THEN <<n.toks[1]>> \o SpineOperators(n.kids[2]) ELSE <<>>

RECURSIVE SpineTerms(_)
SpineTerms(n) ==
  IF n.kind = "BinaryEventExpression" THEN <<n.kids[1]>> \o SpineTerms(n.kids[2]) ELSE <<n>>

\* the `or` and `,` of the stream outside every parenthesis, in order
OuterSeparators ==
  SelectSeq([i \in 1..Len(tokens) |-> Token(tokens[i], i)],
            LAMBDA t : t.kind \in {"OrKeyword", "Comma"} /\ ParenDepth(t.at) = 0)

\* the signal term of the identifier at position i, without edge and guard
Signal(i) == Node("SignalEventExpression", <<EmptyToken>>, <<Id(i), NullNode>>)

\* where the k-th term of the outer level starts
TermStart(k) == IF k = 1 THEN 1 ELSE OuterSeparators[k - 1].at + 1

\* C21: event terms joined by `or` or `,` combine right-recursively at one precedence:
\* `a sep1 b sep2 c` is BinaryEvent(a, sep1, BinaryEvent(b, sep2, c)) for every choice of the
\* separators; a parenthesized event expression is one term; an `iff` guard belongs to the
\* signal term right in front of it.
C21_EventsRightRecursive ==
  EventDone =>
    LET terms == SpineTerms(result) IN
    /\ SpineOperators(result) = OuterSeparators
    /\ \A k \in DOMAIN terms :
         /\ terms[k].kind \in {"SignalEventExpression", "ParenthesizedEventExpression"}
         /\ (TermStart(k) \in DOMAIN tokens /\ tokens[TermStart(k)] = "OpenParenthesis") =>
              /\ terms[k].kind = "ParenthesizedEventExpression"
              /\ terms[k].toks[1] = Token("OpenParenthesis", TermStart(k))
    /\ \A n \in Subnodes(result) :
         n.kind = "BinaryEventExpression" => n.kids[1].kind # "BinaryEventExpression"
    /\ (/\ Len(tokens) = 5
        /\ \A i \in {1, 3, 5} : tokens[i] = "Identifier"
        /\ \A i \in {2, 4} : tokens[i] \in {"OrKeyword", "Comma"}) =>
         result = binaryEventExpression(Signal(1), Token(tokens[2], 2),
                    binaryEventExpression(Signal(3), Token(tokens[4], 4), Signal(5)))
    /\ \A q \in DOMAIN tokens :
         tokens[q] = "IffKeyword" =>
           IF tokens[q - 1] = "Identifier"
             THEN \E n \in Subnodes(result) :
                    /\ n.kind = "SignalEventExpression"
                    /\ n.kids[1] = Id(q - 1)
                    /\ n.kids[2].kind = "IffEventClause"
                    /\ n.kids[2].toks = <<Token("IffKeyword", q)>>
             ELSE cur.pos = q /\ Holders(result, q) = {}

\* `( a , b iff c ) or a , a` has been parsed: three terms, the first a parenthesized one
C21_Witness ==
  /\ EventDone
  /\ tokens = <<"OpenParenthesis", "Identifier", "Comma", "Identifier", "IffKeyword",
                "Identifier", "CloseParenthesis", "OrKeyword", "Identifier", "Comma",
                "Identifier">>
  /\ Len(SpineTerms(result)) = 3
  /\ SpineTerms(result)[1].kind = "ParenthesizedEventExpression"
  /\ SpineOperators(result) = <<Token("OrKeyword", 8), Token("Comma", 10)>>
  /\ cur.diags = <<>>
  /\ cur.pos = 12

\* an expression has been parsed with ConstraintContext
ConstraintDone ==
  phase = "done" /\ entry = "parseSubExpression" /\ "ConstraintContext" \in opts

\* the number of brackets of any kind open at position p
BracketDepth(p) ==
  Cardinality({i \in 1..(p - 1) :
                 tokens[i] \in {"OpenParenthesis", "OpenBracket", "OpenBrace",
                                "ApostropheOpenBrace"}})
    - Cardinality({i \in 1..(p - 1) :
                     tokens[i] \in {"CloseParenthesis", "CloseBracket", "CloseBrace"}})

\* the stream starts with a delay, whose operand is an expression of its own (lines 56-61)
AfterTimingControl == tokens[1] = "Hash"

CaseDone ==
  /\ phase = "done" /\ entry = "parsePropertyExpr"
  /\ tokens # <<>> /\ tokens[1] = "CaseKeyword"
  /\ result.kind = "CasePropertyExpr"

\* the items of the case, and the default ones among them
CaseItemsOf(n) == n.kids[2].kids

DefaultItems(n) == SelectSeq(CaseItemsOf(n), LAMBDA i : i.kind = "DefaultPropertyCaseItem")

\* the diagnostics of one code
DiagsOf(code) == SelectSeq(cur.diags, LAMBDA d : d.code = code)

\* C23: for any number n >= 2 of default items in one case property exactly one
\* MultipleDefaultCases diagnostic is emitted, at the second default with a note at the
\* first; all n default items are kept in the node; a case with no items emits exactly one
\* CaseStatementEmpty diagnostic.
C23_DefaultsReportedOnce ==
  CaseDone =>
    LET defaults == DefaultItems(result) IN
    /\ Len(defaults) =
         Cardinality({p \in DOMAIN tokens :
                        tokens[p] = "DefaultKeyword" /\ p < cur.pos /\ p \notin cur.skipped})
    /\ \A k \in DOMAIN defaults : ~defaults[k].toks[1].missing
    /\ Len(defaults) >= 2 =>
         /\ DiagsOf("MultipleDefaultCases") =
              <<[code |-> "MultipleDefaultCases", at |-> defaults[2].toks[1].at]>>
         /\ DiagsOf("NotePreviousDefinition") =
              <<[code |-> "NotePreviousDefinition", at |-> defaults[1].toks[1].at]>>
         /\ \E i \in DOMAIN cur.diags :
              /\ cur.diags[i].code = "MultipleDefaultCases"
              /\ i + 1 \in DOMAIN cur.diags
              /\ cur.diags[i + 1].code = "NotePreviousDefinition"
    /\ Len(defaults) < 2 => DiagsOf("MultipleDefaultCases") = <<>>
    /\ IF CaseItemsOf(result) = <<>>
         THEN DiagsOf("CaseStatementEmpty") = <<[code |-> "CaseStatementEmpty", at |-> 1]>>
         ELSE DiagsOf("CaseStatementEmpty") = <<>>

\* a case with three default items and one other has been parsed
C23_Witness ==
  /\ CaseDone
  /\ Len(DefaultItems(result)) = 3
  /\ Len(CaseItemsOf(result)) = 4
  /\ Len(DiagsOf("MultipleDefaultCases")) = 1
  /\ cur.diags[1].at = 13
  /\ cur.pos = Len(tokens) + 1

\* a property that starts with a parenthesized group has been parsed
GroupDone == PropertyDone /\ tokens \in ParenStreams

\* the position where the inner property of the group ends: the first `,` or `)` at the
\* depth of the group, or the end of the stream
InnerEnd ==
  LET ends == {i \in 2..Len(tokens) :
                 tokens[i] \in {"Comma", "CloseParenthesis"} /\ ParenDepth(i) = 1}
  IN IF ends = {} THEN Len(tokens) + 1 ELSE CHOOSE i \in ends : \A j \in ends : i <= j

InnerTokens == SubSeq(tokens, 2, InnerEnd - 1)

KindAt(i) == IF i \in DOMAIN tokens THEN tokens[i] ELSE "EndOfFile"

\* the three conditions of lines 1313-1344, read off the stream
ReadAsExpression ==
  /\ InnerTokens \in SimpleInners
  /\ KindAt(InnerEnd) = "CloseParenthesis"
  /\ isBinaryOrPostfixExpression(KindAt(InnerEnd + 1))

ReadAsSequence ==
  /\ ~ReadAsExpression
  /\ InnerTokens \in SimpleInners \cup SequenceInners
  /\ \/ KindAt(InnerEnd) = "Comma"
     \/ KindAt(InnerEnd) = "CloseParenthesis" /\ KindAt(InnerEnd + 1) = "OpenBracket"

\* the nodes that hold the token of position p
HolderNodes(p) ==
  {n \in Subnodes(result) : \E i \in DOMAIN n.toks : ~n.toks[i].missing /\ n.toks[i].at = p}

\* the group node: the one that holds the `(` of position 1
GroupNode == CHOOSE n \in HolderNodes(1) : TRUE

\* the matching `)` of the stream, where there is one
GroupClose ==
  {i \in 2..Len(tokens) : tokens[i] = "CloseParenthesis" /\ ParenDepth(i) = 1}

\* C24: a parenthesized group of a property is resolved after its inner property is
\* parsed: a simple property over a simple sequence followed by `)` and a binary or postfix
\* continuation becomes a plain parenthesized expression on which postfix and binary parsing
\* resume, wrapped in a simple property; otherwise a simple property followed by `,`, or by
\* `)` and `[`, becomes a ParenthesizedSequenceExpr in a simple property; otherwise the
\* group is a ParenthesizedPropertyExpr. One shape is produced, and `(` and `)` are each
\* held by it once.
C24_GroupResolvedLate ==
  GroupDone =>
    /\ Cardinality(HolderNodes(1)) = 1
    /\ GroupNode.toks[1] = Token("OpenParenthesis", 1)
    /\ GroupNode.kind =
         IF ReadAsExpression THEN "ParenthesizedExpression"
         ELSE IF ReadAsSequence THEN "ParenthesizedSequenceExpr"
         ELSE "ParenthesizedPropertyExpr"
    /\ GroupNode.kind \in {"ParenthesizedExpression", "ParenthesizedSequenceExpr"} =>
         \E n \in Subnodes(result) :
            /\ n.kind = "SimplePropertyExpr"
            /\ IF ReadAsExpression
                 THEN /\ n.kids[1].kind = "SimpleSequenceExpr"
                      /\ n.kids[1].kids[2] = NullNode
                      /\ GroupNode \in Subnodes(n.kids[1].kids[1])
                      /\ InnerEnd + 1 < cur.pos
                 ELSE n.kids[1] = GroupNode
    /\ \A c \in GroupClose :
         c < cur.pos =>
           /\ HolderNodes(c) = {GroupNode}
           /\ Cardinality({i \in DOMAIN GroupNode.toks : GroupNode.toks[i].at = c}) = 1

\* `( a ) + a and a` has been parsed: the group is an expression, the sum is folded, and the
\* simple property is the left operand of the conjunction
C24_Witness ==
  /\ GroupDone
  /\ tokens = <<"OpenParenthesis", "Identifier", "CloseParenthesis", "Plus", "Identifier",
                "AndKeyword", "Identifier">>
  /\ result.kind = "AndPropertyExpr"
  /\ result.kids[1].kids[1].kids[1].kind = "AddExpression"
  /\ GroupNode.kind = "ParenthesizedExpression"
  /\ cur.pos = 8

\* an expression of the predicate streams has been parsed
PredicateDone == phase = "done" /\ entry = "parseSubExpression" /\ tokens \in PredicateStreams

\* a conditional may be formed at this level (line 144)
MayTakeConditional ==
  "PatternContext" \notin opts /\ minPrec < getPrecedence("LogicalOrExpression")

\* the brackets opened and not closed between position m and position i
OpenSince(m, i) ==
  Cardinality({j \in (m + 1)..(i - 1) :
                 tokens[j] \in {"OpenParenthesis", "OpenBracket", "OpenBrace"}})
    - Cardinality({j \in (m + 1)..(i - 1) :
                     tokens[j] \in {"CloseParenthesis", "CloseBracket", "CloseBrace"}})

\* after position m a `?` comes at the nesting depth of m, before an unmatched `)` and
\* before any token that cannot belong to the predicate
QuestionAhead(m) ==
  \E q \in (m + 1)..Len(tokens) :
    /\ tokens[q] = "Question"
    /\ OpenSince(m, q) = 0
    /\ \A i \in (m + 1)..(q - 1) :
         /\ ~isNotInType(tokens[i])
         /\ OpenSince(m, i) = 0 => tokens[i] \notin {"Question", "CloseParenthesis"}

\* the left operand alone came back, the token of position 2 unconsumed
LeftAlone == result = Id(1) /\ cur.pos = 2 /\ cur.diags = <<>>

\* C25: a conditional is formed only without PatternContext and with a minimum precedence
\* below that of logical-or; on `matches` or `&&&` the parse commits to a conditional only if
\* a `?` lies ahead at the same nesting depth, before an unmatched `)` and before a token that
\* cannot belong to the predicate, and otherwise returns the left operand with the token
\* unconsumed; inside PatternContext no `?` is consumed.
C25_ConditionalCommit ==
  PredicateDone =>
    /\ \A q \in DOMAIN tokens :
         (tokens[q] = "Question" /\ BracketDepth(q) = 0 /\ q < cur.pos) =>
           /\ MayTakeConditional
           /\ Holders(result, q) \subseteq {"ConditionalExpression"}
    /\ (tokens[1] = "Identifier" /\ tokens[2] = "Question") =>
         IF MayTakeConditional
           THEN /\ result.kind = "ConditionalExpression"
                /\ result.toks[1] = Token("Question", 2)
                /\ result.kids[1] = conditionalPredicate(<<conditionalPattern(Id(1), NullNode)>>)
           ELSE LeftAlone
    /\ (tokens[1] = "Identifier" /\ tokens[2] \in {"MatchesKeyword", "TripleAnd"}) =>
         IF MayTakeConditional /\ QuestionAhead(2)
           THEN /\ result.kind = "ConditionalExpression"
                /\ cur.pos > 2
                /\ Holders(result, 2) # {}
           ELSE LeftAlone

\* `a &&& ( a ) ? a : a` has been parsed at the level below logical-or: the `?` behind the
\* parenthesized operand is found and the conditional is formed
C25_Witness ==
  /\ PredicateDone
  /\ tokens = <<"Identifier", "TripleAnd", "OpenParenthesis", "Identifier",
                "CloseParenthesis", "Question", "Identifier", "Colon", "Identifier">>
  /\ minPrec = getPrecedence("LogicalOrExpression") - 1
  /\ opts = {}
  /\ result.kind = "ConditionalExpression"
  /\ result.toks[1] = Token("Question", 6)
  /\ cur.diags = <<>>
  /\ cur.pos = 10

\* the rules that take the depth guard on entry
GuardedRules == {"parseSubExpression", "parseSequenceExpr", "parsePropertyExpr"}

\* the running rule is a guarded one and is about to return
GuardedReturn ==
  /\ phase = "running"
  /\ Top.rule \in GuardedRules
  /\ Command.op = "ret"

\* C26: the depth guard is balanced: every call of parseSubExpression, parseSequenceExpr
\* and parsePropertyExpr returns, on each of its exit paths, with the depth counter at the
\* value it had on entry, and after a complete parse the counter is back at its initial
\* value.
C26_DepthBalanced ==
  /\ GuardedReturn => Command.s.depth = Top.d
  /\ phase = "done" => cur.depth = InitState.depth

\* a nested parseSubExpression leaves through the early return for a tagged union, two
\* levels deep
C26_Witness ==
  /\ GuardedReturn
  /\ Top.rule = "parseSubExpression"
  /\ Top.pc = 0
  /\ Command.r.kind = "TaggedUnionExpression"
  /\ Top.d >= 1
  /\ Command.s.depth = Top.d

\* ---------------------------------------------------------------- C27
\* a sequence or property parse of an operand followed by one bracket has finished
RepetitionDone ==
  /\ phase = "done"
  /\ entry \in {"parseSequenceExpr", "parsePropertyExpr"}
  /\ tokens \in RepetitionStreams

\* the position of the `[` of the stream
BracketAt == CHOOSE p \in DOMAIN tokens : tokens[p] = "OpenBracket"

\* the `[` starts a repetition suffix: `*`, `=` or `->` follows, or `+` and then `]`
StartsRepetition ==
  \/ tokens[BracketAt + 1] \in {"Star", "Equals", "MinusArrow"}
  \/ tokens[BracketAt + 1] = "Plus" /\ tokens[BracketAt + 2] = "CloseBracket"

\* the simple sequence of the result (a property parse wraps it in a simple property)
SimpleSequenceOf(n) == IF n.kind = "SimplePropertyExpr" THEN n.kids[1] ELSE n

\* C27: in a sequence, a `[` that starts a repetition suffix is never taken as an element
\* select: it is held by a repetition node of the simple sequence whose expression is the
\* operand before it; any other `[` (as in a[3] and a[+1]) is held by an element select
\* and the sequence has no repetition.
C27_RepetitionBracket ==
  RepetitionDone =>
    LET seq == SimpleSequenceOf(result)
    IN /\ seq.kind = "SimpleSequenceExpr"
       /\ IF StartsRepetition
            THEN /\ Holders(result, BracketAt) = {"SequenceRepetition"}
                 /\ seq.kids[2].kind = "SequenceRepetition"
                 /\ Holders(seq.kids[1], BracketAt) = {}
                 /\ \A p \in 1..(BracketAt - 1) : Holders(seq.kids[1], p) # {}
            ELSE /\ Holders(result, BracketAt) = {"ElementSelect"}
                 /\ seq.kids[2] = NullNode
                 /\ Holders(seq.kids[1], BracketAt) = {"ElementSelect"}

\* a[*3] in a sequence: the simple sequence of a with a repetition node
C27_Witness ==
  /\ RepetitionDone
  /\ entry = "parseSequenceExpr"
  /\ tokens = <<"Identifier", "OpenBracket", "Star", "IntegerLiteral", "CloseBracket">>
  /\ result.kids[1] = Id(1)
  /\ result.kids[2].kind = "SequenceRepetition"
  /\ result.kids[2].toks = <<Token("OpenBracket", 2), Token("Star", 3), Token("CloseBracket", 5)>>
  /\ cur.diags = <<>>

\* ---------------------------------------------------------------- C28
\* a property parse of a prefix operator and its operand has finished
ExtentDone ==
  /\ phase = "done"
  /\ entry = "parsePropertyExpr"
  /\ tokens \in ExtentStreams

\* the positions of the binary property operators of the stream
BinaryPositions ==
  {p \in DOMAIN tokens : tokens[p] \in {"ImpliesKeyword", "OrKeyword", "UntilKeyword"}}

\* the node of the prefix operator: the one that holds the token of position 1
PrefixNode == CHOOSE n \in HolderNodes(1) : TRUE

\* the property the prefix operator was given as its operand
PrefixOperand == PrefixNode.kids[Len(PrefixNode.kids)]

\* the operators that take one property primary
PrimaryOperators == {"NotKeyword", "NextTimeKeyword", "SNextTimeKeyword"}

\* the position of the first token after the prefix and its bounds or condition
OperandStart ==
  IF tokens[2] \in {"OpenBracket", "OpenParenthesis"} THEN 5 ELSE 2

\* the kinds of the binary property nodes the streams can give
BinaryPropertyKinds ==
  {getBinaryPropertyExpr(kind) : kind \in {"ImpliesKeyword", "OrKeyword", "UntilKeyword"}}

\* the operand a chain of binary property operators starts with
RECURSIVE LeftmostProperty(_)
LeftmostProperty(n) ==
  IF n.kind \in BinaryPropertyKinds THEN LeftmostProperty(n.kids[1]) ELSE n

\* C28: not, nexttime and s_nexttime take one property primary: the binary property
\* operators after the operand are outside the unary node, which is the leftmost operand
\* of the result; always, s_always, eventually, s_eventually, the accept_on and reject_on
\* family and the branches of if and else take a full property expression: the result is
\* the prefix node itself and every following binary operator is inside a branch of it.
C28_OperandExtent ==
  ExtentDone =>
    /\ cur.diags = <<>>
    /\ cur.pos = Len(tokens) + 1
    /\ Cardinality(HolderNodes(1)) = 1
    /\ IF tokens[1] \in PrimaryOperators
         THEN /\ PrefixNode.kind \in {"UnaryPropertyExpr", "UnarySelectPropertyExpr"}
              /\ PrefixOperand = simplePropertyExpr(simpleSequenceExpr(Id(OperandStart), NullNode))
              /\ \A p \in BinaryPositions : Holders(PrefixNode, p) = {}
              /\ result.kind \in BinaryPropertyKinds
              /\ LeftmostProperty(result) = PrefixNode
         ELSE /\ PrefixNode = result
              /\ \A p \in BinaryPositions : Holders(result, p) # {}
              /\ \A p \in BinaryPositions :
                   \E i \in DOMAIN result.kids : Holders(result.kids[i], p) # {}
              /\ tokens[1] # "IfKeyword" =>
                   \A p \in BinaryPositions : Holders(PrefixOperand, p) # {}
              /\ tokens[1] = "IfKeyword" =>
                   \A p \in BinaryPositions :
                     IF \E e \in 1..p : tokens[e] = "ElseKeyword"
                       THEN Holders(result.kids[3], p) # {}
                       ELSE Holders(result.kids[2], p) # {}

\* not a implies b is Implies(Not(a), b)
C28_Witness ==
  /\ ExtentDone
  /\ tokens = <<"NotKeyword", "Identifier", "ImpliesKeyword", "Identifier">>
  /\ result.kind = "ImpliesPropertyExpr"
  /\ result.toks = <<Token("ImpliesKeyword", 3)>>
  /\ result.kids[1] = unaryPropertyExpr(Token("NotKeyword", 1),
                                        simplePropertyExpr(simpleSequenceExpr(Id(2), NullNode)))
  /\ result.kids[2] = simplePropertyExpr(simpleSequenceExpr(Id(4), NullNode))


\* ---------------------------------------------------------------- C29
\* the places that assert the timing control they are given, each with the position its
\* rule goes on from: parseSubExpression (line 58), parseArgument (line 792),
\* parseSequencePrimary (line 1164), parsePropertyPrimary (line 1303)
AssertedTimingSites ==
  {<<"parseSubExpression", 1>>, <<"parseArgument", 2>>, <<"parseSequencePrimary", 1>>,
   <<"parsePropertyPrimary", 1>>}

\* the frame of the caller of the running rule; its pc is where the caller goes on
Caller == stack[Len(stack) - 1]

\* parseTimingControl has just been called by a caller that asserts the result
AssertedTimingEntry ==
  /\ phase = "running"
  /\ Len(stack) >= 2
  /\ Top.rule = "parseTimingControl"
  /\ Top.pc = 0
  /\ <<Caller.rule, Caller.pc>> \in AssertedTimingSites

\* an asserting caller has just been handed the timing control
AssertedTimingReturn ==
  /\ phase = "running"
  /\ <<Top.rule, Top.pc>> \in AssertedTimingSites

\* parseNamePart has just been handed the parameter value assignment (line 717)
AssertedParameterReturn ==
  /\ phase = "running"
  /\ Top.rule = "parseNamePart"
  /\ Top.pc = 1

\* the assignment pattern expressions handed back: to a caller, or as the parse's tree
PatternsReturned ==
  {n \in {ret, result} : "kind" \in DOMAIN n /\ n.kind = "AssignmentPatternExpression"}

IndexedKinds == {Empty, InstrSlot, Local, Global}

\* the value at hand was made from an indexed kind and an index that fits the word
InRange ==
  /\ made.by = "index"
  /\ made.kind \in IndexedKinds
  /\ made.index < Pow2(WordBits - 3)

\* C30: a MIRValue made from a kind of Empty, InstrSlot, Local or Global and an index
\* below 2^(W-3) gives back that kind and that index, and the assertion of asIndex holds
\* for it; a default-constructed MIRValue has kind Empty and converts to false; every
\* MIRValue converts to true exactly when its kind is not Empty.
C30_PackedLosslessly ==
  /\ InRange =>
       /\ getKind(val) = made.kind
       /\ asIndex(val) = made.index
       /\ asIndexAsserted(val)
  /\ made.by = "default" => getKind(val) = Empty /\ ~asBool(val)
  /\ asBool(val) <=> getKind(val) # Empty

\* the largest index that fits, with the kind of the largest value
C30_Witness ==
  /\ InRange
  /\ made.kind = Global
  /\ made.index = Pow2(WordBits - 3) - 1
  /\ val = Pow2(WordBits) - 4
  /\ asIndex(val) = made.index
  /\ asBool(val)

====
